---- MODULE Spec2Model ----
(***************************************************************************)
(* A model of the storage reliability layer of wallet-test:               *)
(*   packages/core/src/service-factory/storage/enhancers.ts               *)
(*     withAtomic, withChecksum, withQueue, withDebounce,                  *)
(*     createSafeStorage                                                   *)
(* over a key-value backend (StorageAdapter).                              *)
(*                                                                         *)
(* Strings are sequences of one-character strings, so that the checksum    *)
(* envelope is the JSON text the code writes, character by character.      *)
(* null is the one-element sequence <<"null">>: no string of the model has *)
(* an element of more than one character, so it equals no string.          *)
(***************************************************************************)
EXTENDS Integers, Sequences, FiniteSets, TLC

\* ------------------------------------------------------------------------
\* Strings, null, and JavaScript truthiness
\* ------------------------------------------------------------------------

Null == <<"null">>

\* a number that JSON.parse produced, kept as its decimal token
NumberOf(tok) == <<"number">> \o tok

IsNumber(x) == Len(x) >= 1 /\ x[1] = "number"

\* -0 === 0 in JavaScript: the two tokens denote equal numbers
NormTok(tok) == IF tok = <<"-", "0">> THEN <<"0">> ELSE tok

\* `!x` of JavaScript for x a string, null or a number
Falsy(x) ==
    \/ x = Null
    \/ x = <<>>
    \/ (IsNumber(x) /\ NormTok(Tail(x)) = <<"0">>)

Digits == <<"0", "1", "2", "3", "4", "5", "6", "7", "8", "9">>

DigitChars == {Digits[i] : i \in 1..10}

\* the decimal text of an integer, as Number.prototype.toString writes it
RECURSIVE NatToDec(_)
NatToDec(n) ==
    IF n < 10 THEN <<Digits[n + 1]>>
    ELSE NatToDec(n \div 10) \o <<Digits[(n % 10) + 1]>>

\* the digits of -n for n < 0, without ever negating n (which would leave
\* the 32-bit range at -2^31)
RECURSIVE NegToDec(_)
NegToDec(n) ==
    LET r == n % 10
        q == n \div 10
        digit == IF r = 0 THEN 0 ELSE 10 - r
        rest == IF r = 0 THEN q ELSE q + 1
    IN  IF rest = 0 THEN <<Digits[digit + 1]>>
        ELSE NegToDec(rest) \o <<Digits[digit + 1]>>

IntToDec(n) == IF n >= 0 THEN NatToDec(n) ELSE <<"-">> \o NegToDec(n)

\* ------------------------------------------------------------------------
\* CRC-32 (crc32.str): reflected polynomial EDB88320, on 32-bit words.
\* A word is a sequence of 32 bits, least significant first.
\* ------------------------------------------------------------------------

WordSize == 32

ByteSize == 8

CharCode(ch) ==
    CASE ch = "a" -> 97
      [] ch = "b" -> 98
      [] ch = "c" -> 99
      [] ch = "d" -> 100
      [] ch = "t" -> 116
      [] ch = "x" -> 120
      [] ch = "\"" -> 34
      [] ch = "\\" -> 92
      [] ch = "{" -> 123
      [] ch = "}" -> 125
      [] ch = ":" -> 58
      [] ch = "," -> 44
      [] ch = "-" -> 45
      [] ch = "." -> 46
      [] ch \in DigitChars -> 48 + (CHOOSE i \in 0..9 : Digits[i + 1] = ch)
      [] OTHER -> 63

ByteWord(n) ==
    [i \in 1..WordSize |-> IF i <= ByteSize THEN (n \div (2 ^ (i - 1))) % 2 ELSE 0]

XorW(a, b) == [i \in 1..WordSize |-> (a[i] + b[i]) % 2]

ShiftRightW(a, n) ==
    [i \in 1..WordSize |-> IF i + n <= WordSize THEN a[i + n] ELSE 0]

RECURSIVE LowBitsValue(_, _)
LowBitsValue(a, n) ==
    IF n = 0 THEN 0 ELSE a[1] + 2 * LowBitsValue(Tail(a), n - 1)

LowByte(a) == LowBitsValue(a, ByteSize)

\* the word as the signed 32-bit integer JavaScript's bit operators give
ToInt32(a) ==
    LET low == LowBitsValue(a, WordSize - 1)
    IN  IF a[WordSize] = 0 THEN low ELSE (low - 2147483647) - 1

\* 0xEDB88320, hexadecimal digit by digit, most significant first
PolyNibbles == <<14, 13, 11, 8, 8, 3, 2, 0>>

Poly ==
    [i \in 1..WordSize |->
        LET nib == PolyNibbles[8 - ((i - 1) \div 4)]
        IN  (nib \div (2 ^ ((i - 1) % 4))) % 2]

RECURSIVE TableRounds(_, _)
TableRounds(c, j) ==
    IF j = 0 THEN c
    ELSE TableRounds(IF c[1] = 1 THEN XorW(Poly, ShiftRightW(c, 1))
                     ELSE ShiftRightW(c, 1), j - 1)

CRC32_TABLE == [i \in 0..255 |-> TableRounds(ByteWord(i), ByteSize)]

AllOnes == [i \in 1..WordSize |-> 1]

RECURSIVE CrcLoop(_, _)
CrcLoop(crc, str) ==
    IF str = <<>> THEN crc
    ELSE CrcLoop(XorW(ShiftRightW(crc, ByteSize),
                      CRC32_TABLE[LowByte(XorW(crc, ByteWord(CharCode(Head(str)))))]),
                 Tail(str))

crc32str(str) == ToInt32(XorW(CrcLoop(AllOnes, str), AllOnes))

\* ------------------------------------------------------------------------
\* JSON text of the checksum envelope {"d": ..., "c": ..., "t": ...}
\* ------------------------------------------------------------------------

\* JSON.stringify of a string: quoted, with " and \ escaped
RECURSIVE EscapeChars(_)
EscapeChars(str) ==
    IF str = <<>> THEN <<>>
    ELSE (IF Head(str) \in {"\"", "\\"} THEN <<"\\", Head(str)>> ELSE <<Head(str)>>)
         \o EscapeChars(Tail(str))

QuoteString(str) == <<"\"">> \o EscapeChars(str) \o <<"\"">>

\* JSON.stringify({d, c, t}) for a string d and integers c and t
JsonStringify(d, c, t) ==
    <<"{">> \o QuoteString(<<"d">>) \o <<":">> \o QuoteString(d)
     \o <<",">> \o QuoteString(<<"c">>) \o <<":">> \o IntToDec(c)
     \o <<",">> \o QuoteString(<<"t">>) \o <<":">> \o IntToDec(t)
     \o <<"}">>

ParseError == [ok |-> FALSE, next |-> 0, val |-> <<>>]

\* the characters a backslash may introduce in a JSON string, and what they
\* denote (\b and \uXXXX need characters no text of the model holds)
EscapeOf(ch) ==
    CASE ch = "\"" -> <<"\"">>
      [] ch = "\\" -> <<"\\">>
      [] ch = "/" -> <<"/">>
      [] ch = "t" -> <<"\t">>
      [] ch = "n" -> <<"\n">>
      [] ch = "r" -> <<"\r">>
      [] ch = "f" -> <<"\f">>
      [] OTHER -> <<>>

\* the string literal whose opening quote precedes position i
RECURSIVE ScanString(_, _, _)
ScanString(s, i, acc) ==
    IF i > Len(s) THEN ParseError
    ELSE IF s[i] = "\"" THEN [ok |-> TRUE, next |-> i + 1, val |-> acc]
    ELSE IF s[i] = "\\" THEN
        IF i + 1 > Len(s) \/ EscapeOf(s[i + 1]) = <<>> THEN ParseError
        ELSE ScanString(s, i + 2, acc \o EscapeOf(s[i + 1]))
    ELSE ScanString(s, i + 1, Append(acc, s[i]))

RECURSIVE ScanDigits(_, _)
ScanDigits(s, i) ==
    IF i <= Len(s) /\ s[i] \in DigitChars THEN ScanDigits(s, i + 1) ELSE i

\* a JSON integer, -?(0|[1-9][0-9]*), starting at position i; its value is
\* kept as the token (no text of the model holds ".", "e" or "E")
ScanNumber(s, i) ==
    LET j == IF i <= Len(s) /\ s[i] = "-" THEN i + 1 ELSE i
        k == IF j <= Len(s) /\ s[j] = "0" THEN j + 1 ELSE ScanDigits(s, j)
    IN  IF k = j THEN ParseError
        ELSE [ok |-> TRUE, next |-> k, val |-> NumberOf(SubSeq(s, i, k - 1))]

\* a member value: a string or a number
ScanValue(s, i) ==
    IF i > Len(s) THEN ParseError
    ELSE IF s[i] = "\"" THEN ScanString(s, i + 1, <<>>)
    ELSE IF s[i] \in DigitChars \cup {"-"} THEN ScanNumber(s, i)
    ELSE ParseError

NoMembers == [ok |-> TRUE, hasD |-> FALSE, d |-> <<>>, hasC |-> FALSE, c |-> <<>>]

NotAnObject == [ok |-> FALSE, hasD |-> FALSE, d |-> <<>>, hasC |-> FALSE, c |-> <<>>]

\* the members of an object from position i on (a key's opening quote), up to
\* the closing brace, which must end the text; a repeated key keeps its last
\* value, as JSON.parse does
RECURSIVE ScanMembers(_, _, _)
ScanMembers(s, i, acc) ==
    IF i > Len(s) \/ s[i] # "\"" THEN NotAnObject
    ELSE
        LET key == ScanString(s, i + 1, <<>>)
        IN  IF ~key.ok \/ key.next > Len(s) \/ s[key.next] # ":" THEN NotAnObject
            ELSE
                LET v == ScanValue(s, key.next + 1)
                    acc2 == IF key.val = <<"d">> THEN [acc EXCEPT !.hasD = TRUE, !.d = v.val]
                            ELSE IF key.val = <<"c">> THEN [acc EXCEPT !.hasC = TRUE, !.c = v.val]
                            ELSE acc
                IN  IF ~v.ok \/ v.next > Len(s) THEN NotAnObject
                    ELSE IF s[v.next] = "," THEN ScanMembers(s, v.next + 1, acc2)
                    ELSE IF s[v.next] = "}" /\ v.next = Len(s) THEN acc2
                    ELSE NotAnObject

\* JSON.parse(raw) as far as `const { d, c } = JSON.parse(raw)` needs it:
\* ok is FALSE for a syntax error and for a text that is no object
JsonParse(raw) ==
    IF Len(raw) < 2 \/ raw[1] # "{" THEN NotAnObject
    ELSE IF raw = <<"{", "}">> THEN NoMembers
    ELSE ScanMembers(raw, 2, NoMembers)

\* ------------------------------------------------------------------------
\* Keys.  A key is the sequence of its dot-separated segments: "k.bak" is
\* <<"k", "bak">>.
\* ------------------------------------------------------------------------

BakKey(key) == Append(key, "bak")

TmpKey(key) == Append(key, "tmp")

\* key.endsWith(".bak") || key.endsWith(".tmp")
HasSuffix(key) == Len(key) > 1 /\ key[Len(key)] \in {"bak", "tmp"}

\* one primary key for every key: one Mutex in keyLocks
onePrimaryKey(key) == <<"k">>

getPrimaryKey(key) ==
    IF HasSuffix(key) THEN SubSeq(key, 1, Len(key) - 1) ELSE key

\* ------------------------------------------------------------------------
\* The backend: a Map of strings (createMemoryStorageAdapter), whose call
\* may fail:
\*   "throw"    the call throws and leaves the storage as it was
\*   "partial"  a setItem stores the first half of its value and throws
\*   "truncate" a setItem stores the first half of its value and returns
\*   "garble"   the same, of a setItem under a .tmp key only
\* ------------------------------------------------------------------------

GetReq(key) == [op |-> "get", key |-> key, text |-> <<>>]

SetReq(key, text) == [op |-> "set", key |-> key, text |-> text]

RemoveReq(key) == [op |-> "remove", key |-> key, text |-> <<>>]

NoReq == [op |-> "none", key |-> <<>>, text |-> <<>>]

\* value.slice(0, Math.floor(value.length / 2))
HalfOf(text) == SubSeq(text, 1, Len(text) \div 2)

\* key.endsWith(".tmp")
IsTmp(key) == key # <<>> /\ key[Len(key)] = "tmp"

BackendDo(st, req, fault) ==
    CASE fault = "throw" ->
            [st |-> st, val |-> Null, threw |-> TRUE, diag |-> "none"]
      [] req.op = "get" ->
            [st |-> st, val |-> st[req.key], threw |-> FALSE, diag |-> "none"]
      [] req.op = "set" /\ fault = "partial" ->
            [st |-> [st EXCEPT ![req.key] = HalfOf(req.text)], val |-> Null, threw |-> TRUE,
             diag |-> "none"]
      [] req.op = "set" /\ fault = "garble" /\ IsTmp(req.key) ->
            [st |-> [st EXCEPT ![req.key] = HalfOf(req.text)], val |-> Null, threw |-> FALSE,
             diag |-> "none"]
      [] req.op = "set" /\ fault = "truncate" ->
            [st |-> [st EXCEPT ![req.key] = HalfOf(req.text)], val |-> Null, threw |-> FALSE,
             diag |-> "none"]
      [] req.op = "set" ->
            [st |-> [st EXCEPT ![req.key] = req.text], val |-> Null, threw |-> FALSE,
             diag |-> "none"]
      [] OTHER ->
            [st |-> [st EXCEPT ![req.key] = Null], val |-> Null, threw |-> FALSE,
             diag |-> "none"]

\* ------------------------------------------------------------------------
\* withChecksum
\* ------------------------------------------------------------------------

\* crc32.str(d): a number has no length, so the loop never runs and the
\* result is 0
CrcOf(d) == IF IsNumber(d) THEN 0 ELSE crc32str(d)

\* the body of parse's try block, o being JSON.parse(raw)
Checked(o) ==
    IF ~o.ok \/ ~o.hasD THEN [val |-> Null, diag |-> "[Checksum] Parse failed"]
    ELSE IF o.hasC /\ IsNumber(o.c) /\ NormTok(Tail(o.c)) = IntToDec(CrcOf(o.d))
         THEN [val |-> o.d, diag |-> "none"]
    ELSE [val |-> Null, diag |-> "[Checksum] Data corrupted"]

parse(raw) ==
    IF Falsy(raw) THEN [val |-> Null, diag |-> "none"] ELSE Checked(JsonParse(raw))

\* JSON.stringify({d: value, c: crc32.str(value), t: Date.now()})
Wrap(value, now) ==
    IF IsNumber(value)
    THEN <<"{">> \o QuoteString(<<"d">>) \o <<":">> \o NormTok(Tail(value))
          \o <<",">> \o QuoteString(<<"c">>) \o <<":">> \o IntToDec(CrcOf(value))
          \o <<",">> \o QuoteString(<<"t">>) \o <<":">> \o IntToDec(now)
          \o <<"}">>
    ELSE JsonStringify(value, CrcOf(value), now)

\* withChecksum.setItem: the request it passes on
ChecksumSetItem(req, now) == [req EXCEPT !.text = Wrap(req.text, now)]

\* withChecksum.getItem: parse applied to what the backend returned
Parsed(out, p) == [out EXCEPT !.val = p.val, !.diag = p.diag]

ChecksumGetItem(out) == IF out.threw THEN out ELSE Parsed(out, parse(out.val))

\* ------------------------------------------------------------------------
\* `base`, the adapter under withAtomic: withChecksum(...) when cfg.checksum,
\* over withQueue(backend) or the backend.  One call on it, which is one call
\* on the backend; while one operation runs at a time withQueue passes each
\* call on.
\* ------------------------------------------------------------------------

\* a withChecksum that leaves the .tmp copies as withAtomic made them
primaryEncoded(cfg, req, now) ==
    IF cfg.checksum /\ req.op = "set" /\ ~IsTmp(req.key) THEN ChecksumSetItem(req, now) ELSE req

\* a withChecksum that wraps what is written under a caller's key and leaves
\* the .bak and .tmp copies as withAtomic made them
callerEncoded(cfg, req, now) ==
    IF cfg.checksum /\ req.op = "set" /\ ~HasSuffix(req.key) THEN ChecksumSetItem(req, now) ELSE req

Encoded(cfg, req, now) ==
    IF cfg.checksum /\ req.op = "set" THEN ChecksumSetItem(req, now) ELSE req

Decoded(cfg, req, out) ==
    IF cfg.checksum /\ req.op = "get" THEN ChecksumGetItem(out) ELSE out

\* a withChecksum whose getItem removes what it cannot accept
repairingPerform(cfg, st, req, fault, now) ==
    LET out == Decoded(cfg, req, BackendDo(st, Encoded(cfg, req, now), fault))
    IN  IF cfg.checksum /\ req.op = "get" /\ out.diag # "none"
        THEN [out EXCEPT !.st = BackendDo(st, RemoveReq(req.key), "none").st]
        ELSE out

Perform(cfg, st, req, fault, now) ==
    Decoded(cfg, req, BackendDo(st, Encoded(cfg, req, now), fault))

\* ------------------------------------------------------------------------
\* One call of an adapter method in progress.  pc names the call on `base`
\* the method is waiting for, req is that call; the handlers below say, for
\* each such call, what the method does with its result r up to its next call
\* on `base`.
\* ------------------------------------------------------------------------

VerificationError == "[Atomic] Write verification failed"

BackendError == "backend error"

RestoredWarning == "[Atomic] Restored from backup"

NewCall(op, key, value) ==
    [op |-> op, key |-> key, value |-> value, pc |-> "start", req |-> NoReq,
     result |-> Null, backup |-> Null, halt |-> "run", err |-> "none", ret |-> Null,
     diag |-> <<>>, trace |-> <<>>, probe |-> FALSE, by |-> "caller"]

Entry == {"start", "probe"}

Await(p, pc, req) == [p EXCEPT !.pc = pc, !.req = req]

Done(p, ret) == [p EXCEPT !.pc = "done", !.req = NoReq, !.halt = "done", !.ret = ret]

Thrown(p, err) == [p EXCEPT !.req = NoReq, !.halt = "thrown", !.err = err]

Warn(p, msg) == [p EXCEPT !.diag = Append(@, msg)]

\* ------------------------------------------------------------------------
\* withAtomic
\* ------------------------------------------------------------------------

syncGetItem(p, r) ==
    CASE p.pc \in Entry -> Await(p, "result", GetReq(p.key))
      [] p.pc = "result" ->
            IF Falsy(r) THEN Await([p EXCEPT !.result = r], "backup", GetReq(BakKey(p.key)))
            ELSE Done(p, r)
      [] p.pc = "backup" ->
            IF ~Falsy(r)
            THEN Await(Warn([p EXCEPT !.backup = r], RestoredWarning), "restore",
                       SetReq(p.key, r))
            ELSE Done(p, p.result)
      [] OTHER -> Done(p, p.backup)

\* setItem as a removal followed by a write in place
naiveSetItem(p, r) ==
    CASE p.pc \in Entry -> Await(p, "current", RemoveReq(p.key))
      [] p.pc = "current" -> Await(p, "commit", SetReq(p.key, p.value))
      [] OTHER -> Done(p, Null)

\* setItem with no comparison of what was read back
unverifiedSetItem(p, r) ==
    CASE p.pc \in Entry -> Await(p, "current", GetReq(p.key))
      [] p.pc = "current" ->
            IF ~Falsy(r) THEN Await(p, "backup", SetReq(BakKey(p.key), r))
            ELSE Await(p, "tmp", SetReq(TmpKey(p.key), p.value))
      [] p.pc = "backup" -> Await(p, "tmp", SetReq(TmpKey(p.key), p.value))
      [] p.pc = "tmp" -> Await(p, "written", GetReq(TmpKey(p.key)))
      [] p.pc = "written" -> Await(p, "commit", SetReq(p.key, r))
      [] p.pc = "commit" -> Await(p, "cleanup", RemoveReq(TmpKey(p.key)))
      [] OTHER -> Done(p, Null)

syncSetItem(p, r) ==
    CASE p.pc \in Entry -> Await(p, "current", GetReq(p.key))
      [] p.pc = "current" ->
            IF ~Falsy(r) THEN Await(p, "backup", SetReq(BakKey(p.key), r))
            ELSE Await(p, "tmp", SetReq(TmpKey(p.key), p.value))
      [] p.pc = "backup" -> Await(p, "tmp", SetReq(TmpKey(p.key), p.value))
      [] p.pc = "tmp" -> Await(p, "written", GetReq(TmpKey(p.key)))
      [] p.pc = "written" ->
            IF r # p.value THEN Thrown(p, VerificationError)
            ELSE Await(p, "commit", SetReq(p.key, r))
      [] p.pc = "commit" -> Await(p, "cleanup", RemoveReq(TmpKey(p.key)))
      [] OTHER -> Done(p, Null)

\* a removeItem that removes the primary copy only
primaryRemoveItem(p, r) ==
    CASE p.pc \in Entry -> Await(p, "key", RemoveReq(p.key))
      [] OTHER -> Done(p, Null)

syncRemoveItem(p, r) ==
    CASE p.pc \in Entry -> Await(p, "key", RemoveReq(p.key))
      [] p.pc = "key" -> Await(p, "bak", RemoveReq(BakKey(p.key)))
      [] p.pc = "bak" -> Await(p, "tmp", RemoveReq(TmpKey(p.key)))
      [] OTHER -> Done(p, Null)

\* the body run under getLock(primaryKey).runExclusive
asyncGetItem(p, r) ==
    CASE p.pc \in Entry -> Await(p, "result", GetReq(p.key))
      [] p.pc = "result" ->
            IF Falsy(r) /\ p.key = getPrimaryKey(p.key)
            THEN Await([p EXCEPT !.result = r], "backup", GetReq(BakKey(p.key)))
            ELSE Done(p, r)
      [] p.pc = "backup" ->
            IF ~Falsy(r)
            THEN Await(Warn([p EXCEPT !.backup = r], RestoredWarning), "restore",
                       SetReq(p.key, r))
            ELSE Done(p, p.result)
      [] OTHER -> Done(p, p.backup)

asyncSetItem(p, r) ==
    CASE p.pc \in Entry -> Await(p, "current", GetReq(p.key))
      [] p.pc = "current" ->
            IF ~Falsy(r) THEN Await(p, "backup", SetReq(BakKey(p.key), r))
            ELSE Await(p, "tmp", SetReq(TmpKey(p.key), p.value))
      [] p.pc = "backup" -> Await(p, "tmp", SetReq(TmpKey(p.key), p.value))
      [] p.pc = "tmp" -> Await(p, "written", GetReq(TmpKey(p.key)))
      [] p.pc = "written" ->
            IF r # p.value THEN Thrown(p, VerificationError)
            ELSE Await(p, "commit", SetReq(p.key, r))
      [] p.pc = "commit" -> Await(p, "cleanup", RemoveReq(TmpKey(p.key)))
      [] OTHER -> Done(p, Null)

asyncRemoveItem(p, r) ==
    CASE p.pc \in Entry -> Await(p, "key", RemoveReq(p.key))
      [] p.pc = "key" -> Await(p, "bak", RemoveReq(BakKey(p.key)))
      [] p.pc = "bak" -> Await(p, "tmp", RemoveReq(TmpKey(p.key)))
      [] OTHER -> Done(p, Null)

\* under withQueue every call returns a promise, whatever the backend does
BaseIsAsync(cfg) == cfg.async \/ cfg.queue

\* isAsync ? asyncFn : syncFn, for the three methods
Route(cfg, p, r) ==
    CASE p.op = "get" -> IF BaseIsAsync(cfg) THEN asyncGetItem(p, r) ELSE syncGetItem(p, r)
      [] p.op = "set" -> IF BaseIsAsync(cfg) THEN asyncSetItem(p, r) ELSE syncSetItem(p, r)
      [] OTHER -> IF BaseIsAsync(cfg) THEN asyncRemoveItem(p, r) ELSE syncRemoveItem(p, r)

\* while isAsync === null a method first calls base.getItem(key), and drops
\* what it returns
detectAndRoute(cfg, p, r) ==
    IF p.pc = "start" /\ p.probe THEN Await(p, "probe", GetReq(p.key)) ELSE Route(cfg, p, r)

\* without withAtomic a method is the one call on `base`
Direct(p, r) ==
    CASE p.pc \in Entry /\ p.op = "set" -> Await(p, "direct", SetReq(p.key, p.value))
      [] p.pc \in Entry /\ p.op = "get" -> Await(p, "direct", GetReq(p.key))
      [] p.pc \in Entry -> Await(p, "direct", RemoveReq(p.key))
      [] OTHER -> Done(p, r)

Resume(cfg, p, r) == IF cfg.atomic THEN detectAndRoute(cfg, p, r) ELSE Direct(p, r)

\* the call p waited for has returned `out`
Logged(p, out) ==
    [p EXCEPT !.trace = Append(@, [op |-> p.req.op, key |-> p.req.key, text |-> p.req.text,
                                   val |-> out.val, threw |-> out.threw]),
              !.diag = IF out.diag = "none" THEN @ ELSE Append(@, out.diag)]

\* an asynchronous base hands the probe a promise, whose rejection nothing
\* awaits
Settle(cfg, p, out) ==
    IF out.threw /\ ~(p.pc = "probe" /\ BaseIsAsync(cfg)) THEN Thrown(p, BackendError)
    ELSE Resume(cfg, p, out.val)

Deliver(cfg, m, out) == [p |-> Settle(cfg, Logged(m.p, out), out), st |-> out.st]

\* a method called: it runs up to its first call on `base`
Begin(cfg, detected, st, op, key, value) ==
    [p |-> Resume(cfg, [NewCall(op, key, value) EXCEPT !.probe = cfg.atomic /\ ~detected], Null),
     st |-> st]

\* the call the method waits for is made and returns
Step(cfg, m, fault, now) == Deliver(cfg, m, Perform(cfg, m.st, m.p.req, fault, now))

NoFault == [at |-> 0, kind |-> "none"]

FaultAt(how, n) == IF how.at = n THEN how.kind ELSE "none"

\* the method runs to its end, or to the call the process stops at
RECURSIVE RunToEnd(_, _, _, _)
RunToEnd(cfg, m, how, now) ==
    IF m.p.halt # "run" THEN m
    ELSE IF how.kind = "stop" /\ how.at = Len(m.p.trace) + 1
        THEN [m EXCEPT !.p.halt = "stopped"]
    ELSE RunToEnd(cfg, Step(cfg, m, FaultAt(how, Len(m.p.trace) + 1), now), how, now)

\* ------------------------------------------------------------------------
\* withDebounce: one lodash debounce(fn, wait, {maxWait}) per key.
\* A writer is the closure state of debounce: lastArgs (Null: undefined),
\* lastCallTime (-1: undefined), lastInvokeTime, and timer, the time its
\* pending setTimeout is due (-1: timerId undefined).
\* ------------------------------------------------------------------------

NoTime == 0 - 1

NewWriter == [lastArgs |-> Null, lastCallTime |-> NoTime, lastInvokeTime |-> 0, timer |-> NoTime]

Min(a, b) == IF a < b THEN a ELSE b

Max(a, b) == IF a < b THEN b ELSE a

\* a maxWait that runs out one tick late
lateMaxingWait(cfg) == Max(cfg.maxWait, cfg.wait) + 1

\* maxWait = nativeMax(toNumber(options.maxWait) || 0, wait)
MaxingWait(cfg) == Max(cfg.maxWait, cfg.wait)

shouldInvoke(cfg, w, time) ==
    \/ w.lastCallTime = NoTime
    \/ time - w.lastCallTime >= cfg.wait
    \/ time - w.lastCallTime < 0
    \/ time - w.lastInvokeTime >= MaxingWait(cfg)

remainingWait(cfg, w, time) ==
    Min(cfg.wait - (time - w.lastCallTime), MaxingWait(cfg) - (time - w.lastInvokeTime))

\* each of the following returns the writer and whether func is invoked,
\* and with which value

invokeFunc(w, time) ==
    [w |-> [w EXCEPT !.lastArgs = Null, !.lastInvokeTime = time],
     invoke |-> TRUE, args |-> w.lastArgs]

\* debounce with the option leading: the first call of a run is written at
\* once
eagerLeadingEdge(cfg, w, time) ==
    [w |-> [w EXCEPT !.lastArgs = Null, !.lastInvokeTime = time, !.timer = time + cfg.wait],
     invoke |-> TRUE, args |-> w.lastArgs]

leadingEdge(cfg, w, time) ==
    [w |-> [w EXCEPT !.lastInvokeTime = time, !.timer = time + cfg.wait],
     invoke |-> FALSE, args |-> Null]

trailingEdge(w, time) ==
    IF w.lastArgs # Null THEN invokeFunc([w EXCEPT !.timer = NoTime], time)
    ELSE [w |-> [w EXCEPT !.timer = NoTime, !.lastArgs = Null], invoke |-> FALSE, args |-> Null]

timerExpired(cfg, w, time) ==
    IF shouldInvoke(cfg, w, time) THEN trailingEdge(w, time)
    ELSE [w |-> [w EXCEPT !.timer = time + remainingWait(cfg, w, time)],
          invoke |-> FALSE, args |-> Null]

debounced(cfg, w, time, value) ==
    LET called == [w EXCEPT !.lastArgs = value, !.lastCallTime = time]
    IN  IF shouldInvoke(cfg, w, time) /\ w.timer = NoTime THEN leadingEdge(cfg, called, time)
        ELSE IF shouldInvoke(cfg, w, time)
            THEN invokeFunc([called EXCEPT !.timer = time + cfg.wait], time)
        ELSE [w |-> [called EXCEPT !.timer = IF w.timer = NoTime THEN time + cfg.wait ELSE @],
              invoke |-> FALSE, args |-> Null]

cancel == NewWriter

\* pendingWrites: a Map, kept in insertion order as <<key, value>> entries
MapHas(m, key) == \E i \in 1..Len(m) : m[i][1] = key

MapGet(m, key) == IF MapHas(m, key) THEN m[CHOOSE i \in 1..Len(m) : m[i][1] = key][2] ELSE Null

MapSet(m, key, value) ==
    IF MapHas(m, key) THEN [i \in 1..Len(m) |-> IF m[i][1] = key THEN <<key, value>> ELSE m[i]]
    ELSE Append(m, <<key, value>>)

MapDelete(m, key) == SelectSeq(m, LAMBDA e : e[1] # key)

\* ------------------------------------------------------------------------
\* The state
\* ------------------------------------------------------------------------

\* the values callers write
Vals == {<<>>, <<"a">>, <<"x", "\"">>}

\* the keys callers use: a key, the key its backup is kept under, and
\* another key
CallerKeys == {<<"k">>, <<"k", "bak">>, <<"j">>}

\* a key and the key its backup is kept under
PairKeys == {<<"k">>, <<"k", "bak">>}

\* two keys with two primary keys
TwoKeys == {<<"k">>, <<"j">>}

PhysKeys == CallerKeys \cup {BakKey(k) : k \in CallerKeys} \cup {TmpKey(k) : k \in CallerKeys}

\* the last tick of the clock
Horizon == 7

\* the interruptions in one behaviour
MaxFaults == 2

\* the operations in progress at the same time
MaxOps == 3

\* the unload signals (beforeunload, pagehide) in one behaviour
MaxUnloads == 2

\* the debounce wait, in ticks
WaitTicks == 2

\* `maxWait = wait * 3`
MaxWaitFactor == 3


\* ------------------------------------------------------------------------
\* createServiceFactory: the store of a service and its hydration.
\*
\* A service is a record: opts, its configuration; world, the strings other
\* tabs may store under its key; persisted, the string the storage adapter
\* holds under `${name}-storage`; state, the state of the store;
\* hydrationState, the value of hydrationState$; emitted, what hydrationState$
\* has emitted; stopped, hydrationState$ is complete; listening, the
\* window's "storage" listener is installed; microtask, the callback queued
\* after construction; inflight, the rehydrations waiting for an asynchronous
\* adapter; rehydrates and hydrateCalls, the calls of persist.rehydrate and
\* of hydrate so far; resolved, the hydrate calls that have resolved;
\* mutations, the calls of actions that set the state; setItems, the calls
\* of the adapter's setItem; waiters, the promises waitForHydration
\* returned; diag, the console messages; done, the rehydration that ended
\* last.
\* ------------------------------------------------------------------------

\* the rehydrations of one service
MaxLoads == 2

\* the calls of its actions
MaxMutations == 2

\* the calls of waitForHydration
MaxWaits == 2

\* the fields of a State; a field an object does not have
Fields == {"count", "temp"}

Missing == "missing"

\* initialState
Default == [count |-> "0", temp |-> "t"]

\* the values of count the schema accepts; one it rejects; and the value 5
\* as the version before stored it, which the schema rejects and migrate
\* converts
Numbers == {"0", "5"}

Rejected == "x"

OldFive == "old5"

\* null, where an Error may be
NoError == "null"

NoState == [f \in Fields |-> Missing]

\* what the adapter holds under the storage key: nothing, the empty string,
\* a string JSON.parse rejects, or JSON.stringify({ state, version })
Text(kind) == [kind |-> kind, state |-> NoState, version |-> 0]

Absent == Text("absent")

Envelope(state, version) == [kind |-> "json", state |-> state, version |-> version]

Unparsable == {"empty", "garbage"}

\* !e.newValue
NoNewValue(content) == content.kind \in {"absent", "empty"}

\* `${name}-storage`, and the key of another store
storageKey == "name-storage"

EventKeys == {storageKey, "other-storage"}

\* how a call of the adapter's getItem ends: with a value, or throwing (or
\* rejecting with) an Error, or something that is no Error
GetOutcomes == {"value", "error", "other"}

ValidationFailed == "Hydration validation failed"

KeepingInvalid == "Keeping invalid data as-is (dangerous)"

NotMigrated == "State loaded from storage couldn't be migrated since no migrate function was provided"

NoDone ==
    [by |-> "none", found |-> Absent, outcome |-> "value", threw |-> "none", rejected |-> FALSE,
     before |-> Default]

InitialHydrationState == [hasHydrated |-> FALSE, hydrationError |-> NoError, usedFallback |-> FALSE]

\* firstValueFrom(hydrationState$.pipe(filter(state => state.hasHydrated))):
\* the promises that are pending resolve with the first value emitted that
\* has hasHydrated
Emit(s, v) ==
    [s EXCEPT !.emitted = Append(@, v),
              !.waiters = [i \in DOMAIN @ |->
                              IF @[i].status = "pending" /\ v.hasHydrated
                              THEN [@[i] EXCEPT !.status = "resolved", !.value = v] ELSE @[i]]]

\* an updateHydrationState that emits the updates alone, over the initial
\* value
replaceHydrationState(s, updates) ==
    LET v == [f \in DOMAIN InitialHydrationState |->
                 IF f \in DOMAIN updates THEN updates[f] ELSE InitialHydrationState[f]]
        t == [s EXCEPT !.hydrationState = v]
    IN  IF s.stopped THEN t ELSE Emit(t, v)

\* hydrationState$.next({ ...hydrationState$.value, ...updates }): a
\* BehaviorSubject keeps the value it is given, and emits it unless it is
\* complete
updateHydrationState(s, updates) ==
    LET v == [f \in DOMAIN s.hydrationState |->
                 IF f \in DOMAIN updates THEN updates[f] ELSE s.hydrationState[f]]
        t == [s EXCEPT !.hydrationState = v]
    IN  IF s.stopped THEN t ELSE Emit(t, v)

warn(s, message) == [s EXCEPT !.diag = @ \cup {message}]

onFallback(s) == updateHydrationState(s, [usedFallback |-> TRUE])

\* schema.safeParse(storageValue.state).success, for a schema of the State
\* in which count is a number
safeParse(state) == state.count \in Numbers

\* a validate that returns null under either policy
resettingValidate(s, value) ==
    IF safeParse(value.state) THEN [s |-> s, found |-> TRUE, val |-> value, rejected |-> FALSE]
    ELSE [s |-> onFallback(warn(s, ValidationFailed)), found |-> FALSE, val |-> value, rejected |-> TRUE]

\* validate of withHydrationValidation; found: it returns a value, not null
validate(s, value) ==
    IF safeParse(value.state) THEN [s |-> s, found |-> TRUE, val |-> value, rejected |-> FALSE]
    ELSE IF s.opts.onValidationFail = "keep"
         THEN [s |-> onFallback(warn(warn(s, ValidationFailed), KeepingInvalid)), found |-> TRUE,
               val |-> value, rejected |-> TRUE]
         ELSE [s |-> onFallback(warn(s, ValidationFailed)), found |-> FALSE, val |-> value,
               rejected |-> TRUE]

\* storage.getItem(name): the adapter's getItem, JSON.parse of createJSONStorage
\* and, with a schema, validate
storageGetItem(s, outcome) ==
    CASE outcome # "value" ->
            [s |-> s, found |-> FALSE, val |-> Absent, threw |-> outcome, rejected |-> FALSE]
      [] s.persisted.kind \in Unparsable ->
            [s |-> s, found |-> FALSE, val |-> Absent, threw |-> "error", rejected |-> FALSE]
      [] s.persisted.kind = "absent" ->
            [s |-> s, found |-> FALSE, val |-> Absent, threw |-> "none", rejected |-> FALSE]
      [] s.opts.schema ->
            LET v == validate(s, s.persisted)
            IN  [s |-> v.s, found |-> v.found, val |-> v.val, threw |-> "none", rejected |-> v.rejected]
      [] OTHER -> [s |-> s, found |-> TRUE, val |-> s.persisted, threw |-> "none", rejected |-> FALSE]

\* the callback onRehydrateStorage returns
rehydrated(s, threw) ==
    updateHydrationState(s, [hasHydrated |-> TRUE,
                             hydrationError |-> IF threw = "error" THEN "Error" ELSE NoError])

\* partialize(state); without the option, the state
partialize(s, state) == [f \in Fields |-> IF f \in s.opts.partialize THEN state[f] ELSE Missing]

\* persist: { ...currentState, ...persistedState }
merge(persistedState, currentState) ==
    [f \in Fields |-> IF persistedState[f] # Missing THEN persistedState[f] ELSE currentState[f]]

\* a migrate that converts what the version before stored
migrate(state) == [state EXCEPT !.count = IF @ = OldFive THEN "5" ELSE @]

\* a setItem that stores the state whole
wholeSetItem(s) == [s EXCEPT !.persisted = Envelope(s.state, s.opts.version), !.setItems = @ + 1]

\* persist: storage.setItem(name, { state: partialize({ ...get() }), version })
setItem(s) ==
    [s EXCEPT !.persisted = Envelope(partialize(s, s.state), s.opts.version), !.setItems = @ + 1]

\* persist: what follows storage.getItem in a rehydration.  A value of
\* another version is migrated, or dropped with a console.error when there
\* is no migrate; what is left is merged into the state of the store, which
\* is kept when nothing is; a migrated state is stored; the callback is
\* called.  After a throw the callback alone.
loaded(s, g) ==
    LET differs == g.found /\ g.val.version # s.opts.version
        migrated == differs /\ s.opts.migrate
        persistedState ==
            CASE ~g.found -> NoState
              [] ~differs -> g.val.state
              [] migrated -> migrate(g.val.state)
              [] OTHER -> NoState
        told == IF differs /\ ~migrated THEN warn(g.s, NotMigrated) ELSE g.s
        set == [told EXCEPT !.state = merge(persistedState, @)]
    IN  IF migrated THEN setItem(set) ELSE set

settle(s, by, outcome) ==
    LET g == storageGetItem(s, outcome)
        t == rehydrated(IF g.threw = "none" THEN loaded(s, g) ELSE g.s, g.threw)
    IN  [t EXCEPT !.resolved = IF by = "hydrate" THEN @ + 1 ELSE @,
                  !.done = [by |-> by, found |-> s.persisted, outcome |-> outcome, threw |-> g.threw,
                            rejected |-> g.rejected, before |-> s.state]]

\* persist.rehydrate(): over a synchronous adapter it ends before it returns
rehydrate(s, by, outcome) ==
    LET t == [s EXCEPT !.rehydrates = @ + 1]
    IN  IF s.opts.async THEN [t EXCEPT !.inflight = Append(@, by)] ELSE settle(t, by, outcome)

\* factory(initialState, ...): persist rehydrates unless skipHydration, then
\* the microtask is queued and the "storage" listener installed
Constructed(opts, world, content, outcome) ==
    LET s == [opts |-> opts, world |-> world, persisted |-> content, state |-> Default,
              hydrationState |-> InitialHydrationState, emitted |-> <<InitialHydrationState>>,
              stopped |-> FALSE, listening |-> opts.enableCrossTabSync,
              microtask |-> ~opts.skipHydration, inflight |-> <<>>, rehydrates |-> 0,
              hydrateCalls |-> 0, resolved |-> 0, mutations |-> 0, setItems |-> 0,
              waiters |-> <<>>, diag |-> {}, done |-> NoDone]
    IN  IF opts.skipHydration THEN s ELSE rehydrate(s, "auto", outcome)

\* the configuration of a store: version 1, and the defaults of the options
\* that are not given
StoreOptions(skipHydration, onValidationFail, enableCrossTabSync, schema, async) ==
    [skipHydration |-> skipHydration, onValidationFail |-> onValidationFail,
     enableCrossTabSync |-> enableCrossTabSync, schema |-> schema, async |-> async,
     migrate |-> FALSE, version |-> 1, partialize |-> Fields]

\* the service of a specification that has none
NoService == Constructed(StoreOptions(TRUE, "reset", FALSE, FALSE, FALSE), {}, Absent, "value")

\* the callback of queueMicrotask
microtask(s) ==
    LET t == [s EXCEPT !.microtask = FALSE]
    IN  IF ~s.hydrationState.hasHydrated THEN updateHydrationState(t, [hasHydrated |-> TRUE]) ELSE t

\* handleStorageChange(e)
handleStorageChange(s, key, newValue, outcome) ==
    IF key # storageKey \/ NoNewValue(newValue) THEN s ELSE rehydrate(s, "tab", outcome)

\* destroy(): crossTabCleanup?.(); hydrationState$.complete().  A promise
\* of firstValueFrom that is pending is rejected when its source completes.
destroyed(s) ==
    [s EXCEPT !.listening = FALSE, !.stopped = TRUE,
              !.waiters = [i \in DOMAIN @ |->
                              IF @[i].status = "pending" /\ ~s.stopped
                              THEN [@[i] EXCEPT !.status = "rejected"] ELSE @[i]]]

\* waitForHydration(); early: it was called before hasHydrated
waitForHydration(s) ==
    LET status == CASE s.hydrationState.hasHydrated -> "resolved"
                    [] s.stopped -> "rejected"
                    [] OTHER -> "pending"
    IN  [s EXCEPT !.waiters = Append(@, [status |-> status, value |-> s.hydrationState,
                                         early |-> ~s.hydrationState.hasHydrated])]

\* an action of the store: set(draft => { draft[field] = value }), and the
\* setItem persist makes after it
mutated(s, field, value) ==
    setItem([s EXCEPT !.state = [@ EXCEPT ![field] = value], !.mutations = @ + 1])


VARIABLES
    cfg,            \* the options of createSafeStorage, and the backend's mode
    env,            \* what the run is exposed to, and what of it is recorded
    store,          \* the backend: physical key -> string, or Null
    detected,       \* withAtomic: isAsync !== null
    clock,          \* Date.now(), in ticks
    pendingWrites,  \* withDebounce
    writers,        \* withDebounce: key -> the state of its debounced writer
    last,           \* the last operation on the adapter and how it ended
    faulted,        \* the interruptions so far
    hist,           \* the recent operations on a key
    burst,          \* the run of debounced setItem calls in progress
    procs,          \* the operations issued over an asynchronous base, in issue order
    keyLocks,       \* withAtomic: primary key -> its Mutex
    mutex,          \* withQueue: its Mutex
    unloads,        \* the unload signals so far
    commits,        \* key -> the value last written under it through the adapter, and the one before
    service         \* a service of createServiceFactory: its store, its HydrationState and its loads

vars == <<cfg, env, store, detected, clock, pendingWrites, writers, last, faulted, hist, burst,
          procs, keyLocks, mutex, unloads, commits, service>>

\* what operations in progress at the same time use
asyncVars == <<procs, keyLocks, mutex>>

\* what operations made one at a time use
seqVars == <<clock, pendingWrites, writers, last, faulted, hist, burst, unloads, commits, service>>

NoLast == [op |-> "none", key |-> <<>>, value |-> Null, fault |-> "none",
           ret |-> Null, halt |-> "run", err |-> "none", diag |-> <<>>, trace |-> <<>>]

\* cancelled, due: the value removeItem found pending, and the time the
\* timer it cancelled was due
NoBurst == [open |-> FALSE, first |-> 0, lastT |-> 0, lastV |-> Null, idle |-> TRUE, writes |-> <<>>,
            cancelled |-> Null, due |-> NoTime]

\* the options of createSafeStorage over a synchronous or an asynchronous
\* backend; outside: withQueue is applied last, over withAtomic, and not
\* first as createSafeStorage applies it
Config(queue, checksum, atomic, debounce, async, maxWait) ==
    [queue |-> queue, checksum |-> checksum, atomic |-> atomic, debounce |-> debounce,
     async |-> async, wait |-> WaitTicks, maxWait |-> maxWait, outside |-> FALSE]

DefaultMaxWait == WaitTicks * MaxWaitFactor

\* flow(withAtomic, withQueue)(backend): withQueue(withAtomic(backend))
QueueOutside(async) ==
    [Config(FALSE, FALSE, TRUE, FALSE, async, DefaultMaxWait) EXCEPT !.outside = TRUE]

\* under withQueue every call returns a promise, whatever the backend does
Configs ==
    {Config(q, c, a, d, y, DefaultMaxWait) :
        q \in BOOLEAN, c \in BOOLEAN, a \in BOOLEAN, d \in BOOLEAN, y \in BOOLEAN}
    \ {Config(TRUE, c, a, d, FALSE, DefaultMaxWait) :
          c \in BOOLEAN, a \in BOOLEAN, d \in BOOLEAN}

\* enhancers.push(f) when the option is set
push(on, fs, f) == IF on THEN Append(fs, f) ELSE fs

\* an enhancer list with withAtomic pushed before withChecksum
atomicFirst(o) ==
    push(o.debounce, push(o.checksum, push(o.atomic, push(o.queue, <<>>, "withQueue"),
         "withAtomic"), "withChecksum"), "withDebounce")

\* createSafeStorage: the enhancers in the order it pushes them
enhancers(o) ==
    push(o.debounce, push(o.atomic, push(o.checksum, push(o.queue, <<>>, "withQueue"),
         "withChecksum"), "withAtomic"), "withDebounce")

\* flow(f1, ..., fn)(base) is fn(... f1(base)): the layers of the adapter it
\* returns, the one the caller calls first
flow(fs) == [i \in 1..Len(fs) |-> fs[Len(fs) + 1 - i]]

createSafeStorage(o) == flow(enhancers(o))

\* hist keeps the latest operations on a key, since the last operation on
\* another key, while they make the start of
\* one of the runs of env.shapes: W a setItem that completed, I a setItem
\* interrupted by a stop or a throwing backend call, G a getItem that
\* completed, R a removeItem that completed, L the loss of the primary
\* copy; X is anything else, a W, G or R during which the backend failed
\* included
BackupRun == <<"W", "W", "L", "G", "G">>

CrashRun == <<"I", "G">>

RoundTrip == <<"W", "G">>

RemoveRun == <<"W", "W", "R", "G">>

\* keys, vals: the keys and the values callers use;
\* horizon: the last tick of the clock; faults: the ways the backend and the
\* process fail during a call, maxFaults: how many times they do; damage: how finely stored strings get damaged
\* out of band ("none", "some", "every"); ledger: whether commits is kept
Env(keys, vals, horizon, faults, maxFaults, shapes, damage, ledger) ==
    [keys |-> keys, vals |-> vals, horizon |-> horizon, faults |-> faults,
     maxFaults |-> maxFaults, shapes |-> shapes, damage |-> damage, ledger |-> ledger]

OneKey == {<<"k">>}

NoCommit == [prev |-> Null, cur |-> Null]

\* the calls of a method on the backend that put a value under its key, or
\* remove it
RECURSIVE Committed(_, _, _)
Committed(c, trace, key) ==
    IF trace = <<>> THEN c
    ELSE Committed(
            CASE Head(trace).threw \/ Head(trace).key # key -> c
              [] Head(trace).op = "set" -> [prev |-> c.cur, cur |-> Head(trace).text]
              [] Head(trace).op = "remove" -> NoCommit
              [] OTHER -> c,
            Tail(trace), key)

StorageAtRest ==
    /\ store = [pk \in PhysKeys |-> Null]
    /\ detected = FALSE
    /\ clock = 0
    /\ pendingWrites = <<>>
    /\ writers = [k \in CallerKeys |-> NewWriter]
    /\ last = NoLast
    /\ faulted = 0
    /\ hist = [k \in CallerKeys |-> <<>>]
    /\ burst = [k \in CallerKeys |-> NoBurst]
    /\ procs = <<>>
    /\ keyLocks = <<>>
    /\ mutex = <<>>
    /\ unloads = 0
    /\ commits = [k \in CallerKeys |-> NoCommit]

InitState == StorageAtRest /\ service = NoService

\* ------------------------------------------------------------------------
\* One operation on the adapter, run to its end or to the point it is
\* interrupted at
\* ------------------------------------------------------------------------

\* the calls on `base` a method makes at most: setItem's, after the probe
Statements == <<"probe", "current", "backup", "tmp", "written", "commit", "cleanup">>

\* how a run may be interrupted: not at all, by a backend call that throws
\* ("throw"), by the process stopping at a call ("stop"), or by a setItem
\* of the backend that stores half of the value and throws ("partial") or
\* returns ("truncate")
Interruptions ==
    {NoFault}
    \cup {[at |-> i, kind |-> f] :
             i \in 1..Len(Statements), f \in IF faulted < env.maxFaults THEN env.faults ELSE {}}

\* the run made the call `how` is about
Happened(how, p) ==
    CASE how = NoFault -> TRUE
      [] how.kind = "stop" -> p.halt = "stopped"
      [] how.kind = "throw" -> Len(p.trace) >= how.at
      [] how.kind = "garble" ->
            /\ Len(p.trace) >= how.at
            /\ p.trace[how.at].op = "set" /\ IsTmp(p.trace[how.at].key)
      [] OTHER -> Len(p.trace) >= how.at /\ p.trace[how.at].op = "set"

Run(op, key, value, how) ==
    RunToEnd(cfg, Begin(cfg, detected, store, op, key, value), how, clock)

IsShape(h) ==
    \E sh \in env.shapes : Len(h) <= Len(sh) /\ \A i \in 1..Len(h) : h[i].kind = sh[i]

RECURSIVE Trim(_)
Trim(h) == IF IsShape(h) THEN h ELSE Trim(Tail(h))

\* old: what getItem would have returned in place of the operation
Event(p, how, old) ==
    CASE p.op = "set" /\ p.halt # "done" /\ how.kind \in {"stop", "throw"} ->
            [kind |-> "I", val |-> p.value, old |-> old]
      [] p.halt # "done" \/ how # NoFault -> [kind |-> "X", val |-> Null, old |-> Null]
      [] p.op = "get" -> [kind |-> "G", val |-> p.ret, old |-> Null]
      [] p.op = "set" -> [kind |-> "W", val |-> p.value, old |-> Null]
      [] p.op = "remove" -> [kind |-> "R", val |-> Null, old |-> Null]
      [] OTHER -> [kind |-> "X", val |-> Null, old |-> Null]

\* isAsync is assigned once the probe call has returned
Detected(p) == p.halt # "stopped" /\ (detected \/ (cfg.atomic /\ p.pc \notin Entry))

\* what the process holds in memory is lost when it stops
Memory(p, w, pw, b) ==
    /\ writers' = IF p.halt = "stopped" THEN [k \in CallerKeys |-> NewWriter] ELSE w
    /\ pendingWrites' = IF p.halt = "stopped" THEN <<>> ELSE pw
    /\ burst' = IF p.halt = "stopped" THEN [k \in CallerKeys |-> NoBurst] ELSE b

Record(m, how, old) ==
    /\ Happened(how, m.p)
    /\ store' = m.st
    /\ detected' = Detected(m.p)
    /\ faulted' = IF how = NoFault THEN faulted ELSE faulted + 1
    /\ commits' = IF env.ledger THEN [commits EXCEPT ![m.p.key] = Committed(@, m.p.trace, m.p.key)]
                  ELSE commits
    /\ last' = [op |-> m.p.op, key |-> m.p.key, value |-> m.p.value, fault |-> how.kind,
                ret |-> m.p.ret, halt |-> m.p.halt, err |-> m.p.err, diag |-> m.p.diag,
                trace |-> m.p.trace]
    /\ hist' = [k \in CallerKeys |->
                   IF k = m.p.key THEN Trim(Append(hist[k], Event(m.p, how, old))) ELSE <<>>]

Operate(op, key, value, how) ==
    Record(Run(op, key, value, how), how, Run("get", key, Null, NoFault).p.ret)

\* a getItem that answers with the value waiting to be written
pendingGetItem(key) ==
    /\ last' = [NoLast EXCEPT !.op = "get", !.key = key, !.halt = "done",
                              !.ret = IF MapHas(pendingWrites, key) THEN MapGet(pendingWrites, key)
                                      ELSE store[key],
                              !.trace = <<[op |-> "get", key |-> key, text |-> <<>>,
                                           val |-> store[key], threw |-> FALSE]>>]
    /\ UNCHANGED <<cfg, env, store, detected, clock, pendingWrites, writers, faulted, commits, hist, burst,
                   asyncVars, unloads, service>>

GetItem(key) ==
    /\ \E how \in Interruptions :
        /\ Operate("get", key, Null, how)
        /\ Memory(last', writers, pendingWrites, burst)
    /\ UNCHANGED <<cfg, env, clock, asyncVars, unloads, service>>

SetItem(key, value) ==
    /\ ~cfg.debounce
    /\ \E how \in Interruptions :
        /\ Operate("set", key, value, how)
        /\ Memory(last', writers, pendingWrites, burst)
    /\ UNCHANGED <<cfg, env, clock, asyncVars, unloads, service>>

\* a removeItem that leaves the writer of the key and its pending value
\* alone
forgetfulRemoveItem(key) ==
    /\ \E how \in Interruptions :
        /\ Operate("remove", key, Null, how)
        /\ Memory(last', writers, pendingWrites,
                  [burst EXCEPT ![key] = [NoBurst EXCEPT !.cancelled = MapGet(pendingWrites, key),
                                                        !.due = writers[key].timer]])
    /\ UNCHANGED <<cfg, env, clock, asyncVars, unloads, service>>

\* withDebounce.removeItem cancels and forgets the key's writer
RemoveItem(key) ==
    /\ \E how \in Interruptions :
        /\ Operate("remove", key, Null, how)
        /\ IF cfg.debounce
           THEN Memory(last', [writers EXCEPT ![key] = cancel], MapDelete(pendingWrites, key),
                       [burst EXCEPT ![key] = [NoBurst EXCEPT !.cancelled = MapGet(pendingWrites, key),
                                                             !.due = writers[key].timer]])
           ELSE Memory(last', writers, pendingWrites, burst)
    /\ UNCHANGED <<cfg, env, clock, asyncVars, unloads, service>>

\* the backend loses a key out of band
Lose(pk) ==
    /\ store[pk] # Null
    /\ store' = [store EXCEPT ![pk] = Null]
    /\ last' = [NoLast EXCEPT !.op = "lose", !.key = pk]
    /\ hist' = [k \in CallerKeys |->
                   IF pk = k THEN Trim(Append(hist[k], [kind |-> "L", val |-> Null, old |-> Null]))
                   ELSE <<>>]
    /\ UNCHANGED <<cfg, env, detected, clock, pendingWrites, writers, faulted, commits, burst, asyncVars, unloads, service>>

\* the characters damage puts in place of a stored one
Marks == IF env.damage = "every" THEN {"0", "z"} ELSE {"0"}

\* JSON.stringify puts the first character of d after {"d":" and ends an
\* envelope with ,"t":<now>}
DataSpot == Len(<<"{", "\"", "d", "\"", ":", "\"">>) + 1

CheckSpot(text) == Len(text) - Len(<<",", "\"", "t", "\"", ":", "0", "}">>)

\* where a stored string gets damaged, and the lengths it gets cut to
Spots(text) ==
    IF env.damage = "every" THEN 1..Len(text)
    ELSE {1, DataSpot, CheckSpot(text)} \cap 1..Len(text)

Cuts(text) ==
    IF env.damage = "every" THEN 0..(Len(text) - 1)
    ELSE {0, Len(text) \div 2} \cap 0..(Len(text) - 1)

\* an intact envelope: what withChecksum.getItem accepts
Intact(raw) == raw # Null /\ parse(raw).val # Null

Damaged(pk, text) ==
    /\ store' = [store EXCEPT ![pk] = text]
    /\ last' = [NoLast EXCEPT !.op = "damage", !.key = pk]
    /\ hist' = [k \in CallerKeys |-> <<>>]
    /\ UNCHANGED <<cfg, env, detected, clock, pendingWrites, writers, faulted, commits, burst, asyncVars, unloads, service>>

\* one character of an intact envelope changes out of band
Corrupt(pk) ==
    /\ env.damage # "none"
    /\ Intact(store[pk])
    /\ \E i \in Spots(store[pk]), ch \in Marks :
        /\ store[pk][i] # ch
        /\ Damaged(pk, [store[pk] EXCEPT ![i] = ch])

\* an intact envelope is cut short out of band
Truncate(pk) ==
    /\ env.damage # "none"
    /\ Intact(store[pk])
    /\ \E n \in Cuts(store[pk]) : Damaged(pk, SubSeq(store[pk], 1, n))

\* the debounced function: base.setItem(k, v); pendingWrites.delete(k).
\* A synchronous throw of base.setItem skips the delete.
Invoke(key, w, value, pw, b) ==
    \E how \in Interruptions :
        /\ Operate("set", key, value, how)
        /\ Memory(last', [writers EXCEPT ![key] = w],
                  IF last'.halt = "thrown" /\ ~BaseIsAsync(cfg) THEN pw ELSE MapDelete(pw, key),
                  [b EXCEPT ![key].writes =
                      Append(@, [t |-> clock, v |-> value, lastT |-> b[key].lastT,
                                 latest |-> b[key].lastV])])

\* a run of setItem calls on a key, each less than `wait` after the one
\* before it; idle: it began with no write of the key pending and no timer
\* of its writer running
Arrive(b, key, value, pw) ==
    IF b.open /\ clock - b.lastT < cfg.wait
    THEN [b EXCEPT !.lastT = clock, !.lastV = value]
    ELSE [open |-> TRUE, first |-> clock, lastT |-> clock, lastV |-> value,
          idle |-> ~MapHas(pw, key) /\ writers[key].timer = NoTime, writes |-> <<>>,
          cancelled |-> Null, due |-> NoTime]

\* withDebounce.setItem
DebounceSetItem(key, value) ==
    /\ cfg.debounce
    /\ LET d == debounced(cfg, writers[key], clock, value)
           pw == MapSet(pendingWrites, key, value)
           b == [burst EXCEPT ![key] = Arrive(@, key, value, pendingWrites)]
       IN  IF d.invoke THEN Invoke(key, d.w, d.args, pw, b)
           ELSE /\ writers' = [writers EXCEPT ![key] = d.w]
                /\ pendingWrites' = pw
                /\ burst' = b
                /\ last' = [NoLast EXCEPT !.op = "defer", !.key = key, !.value = value]
                /\ UNCHANGED <<store, detected, faulted, commits, hist>>
    /\ UNCHANGED <<cfg, env, clock, asyncVars, unloads, service>>

\* the writer's setTimeout callback, at the time it is due
TimerFire(key) ==
    /\ writers[key].timer = clock
    /\ LET d == timerExpired(cfg, writers[key], clock)
       IN  IF d.invoke THEN Invoke(key, d.w, d.args, pendingWrites, burst)
           ELSE /\ writers' = [writers EXCEPT ![key] = d.w]
                /\ UNCHANGED <<store, detected, pendingWrites, burst, last, faulted, commits, hist>>
    /\ UNCHANGED <<cfg, env, clock, asyncVars, unloads, service>>

\* a flush that writes the pending value and leaves the key's timer running
timedFlushEntry(m, e, r) ==
    [st |-> r.st, det |-> m.det \/ cfg.atomic, w |-> m.w, trace |-> m.trace \o r.p.trace,
     wrote |-> Append(m.wrote, e), threw |-> r.p.halt = "thrown" /\ ~BaseIsAsync(cfg)]

\* flush, one pending entry: writers.get(key)?.cancel(); base.setItem(key,
\* value).  m: the backend, isAsync !== null, the writers, the calls made on
\* the backend, and whether a base.setItem threw into the loop
FlushEntry(m, e, r) ==
    [st |-> r.st,
     det |-> m.det \/ cfg.atomic,
     w |-> [m.w EXCEPT ![e[1]] = cancel],
     trace |-> m.trace \o r.p.trace,
     wrote |-> Append(m.wrote, e),
     threw |-> r.p.halt = "thrown" /\ ~BaseIsAsync(cfg)]

\* for (const [key, value] of pendingWrites) { ... }: a synchronous throw of
\* base.setItem leaves the loop and the handler
RECURSIVE FlushLoop(_, _)
FlushLoop(m, pw) ==
    IF pw = <<>> \/ m.threw THEN m
    ELSE FlushLoop(FlushEntry(m, Head(pw),
                              RunToEnd(cfg, Begin(cfg, m.det, m.st, "set", Head(pw)[1], Head(pw)[2]),
                                       NoFault, clock)),
                   Tail(pw))

\* what the handler leaves: pendingWrites.clear() is reached when nothing
\* threw
Flushed(m) ==
    /\ store' = m.st
    /\ detected' = m.det
    /\ writers' = m.w
    /\ pendingWrites' = IF m.threw THEN pendingWrites ELSE <<>>
    /\ burst' = [k \in CallerKeys |->
                    IF \E i \in 1..Len(m.wrote) : m.wrote[i][1] = k
                    THEN [burst[k] EXCEPT !.writes =
                             Append(@, [t |-> clock, v |-> MapGet(m.wrote, k),
                                        lastT |-> burst[k].lastT, latest |-> burst[k].lastV])]
                    ELSE burst[k]]
    /\ last' = [NoLast EXCEPT !.op = "flush", !.trace = m.trace,
                              !.halt = IF m.threw THEN "thrown" ELSE "done"]
    /\ hist' = [k \in CallerKeys |-> <<>>]
    /\ commits' = IF env.ledger THEN [k \in CallerKeys |-> Committed(commits[k], m.trace, k)]
                  ELSE commits

\* the beforeunload / pagehide handler of withDebounce
flush ==
    /\ cfg.debounce
    /\ unloads < MaxUnloads
    /\ Flushed(FlushLoop([st |-> store, det |-> detected, w |-> writers, trace |-> <<>>,
                          wrote |-> <<>>, threw |-> FALSE], pendingWrites))
    /\ unloads' = unloads + 1
    /\ UNCHANGED <<cfg, env, clock, faulted, asyncVars, service>>

\* time passes once the timers due have run
Tick ==
    /\ clock < env.horizon
    /\ \A k \in CallerKeys : writers[k].timer # clock
    /\ clock' = clock + 1
    /\ UNCHANGED <<cfg, env, store, detected, pendingWrites, writers, last, faulted, commits, hist, burst,
                   asyncVars, unloads, service>>

\* ------------------------------------------------------------------------
\* withAtomic over a synchronous and over an asynchronous backend whose
\* calls fail, and under a process that stops
\* ------------------------------------------------------------------------

AtomicOnly == {Config(FALSE, FALSE, TRUE, FALSE, y, DefaultMaxWait) : y \in BOOLEAN}

InitAtomic ==
    /\ cfg \in AtomicOnly
    /\ env = Env(OneKey, Vals, 0, {"throw", "stop", "partial", "truncate"}, MaxFaults, {CrashRun}, "none", FALSE)
    /\ InitState

NextAtomic ==
    \/ \E k \in env.keys : GetItem(k)
    \/ \E k \in env.keys, v \in env.vals : SetItem(k, v)
    \/ \E k \in env.keys : RemoveItem(k)

SpecAtomic == InitAtomic /\ [][NextAtomic]_vars

\* ------------------------------------------------------------------------
\* withAtomic under callers that use a key and the key of its backup, one
\* method at a time
\* ------------------------------------------------------------------------
InitPaths ==
    /\ cfg \in AtomicOnly
    /\ env = Env(PairKeys, {<<>>, <<"a">>}, 0, {}, 0, {RoundTrip}, "none", FALSE)
    /\ InitState

SpecPaths == InitPaths /\ [][NextAtomic]_vars

\* ------------------------------------------------------------------------
\* withAtomic over a backend that loses keys
\* ------------------------------------------------------------------------

InitBackup ==
    /\ cfg \in AtomicOnly
    /\ env = Env(OneKey, Vals, 0, {}, 0, {BackupRun}, "none", FALSE)
    /\ InitState

NextBackup ==
    \/ \E k \in env.keys : GetItem(k)
    \/ \E k \in env.keys, v \in env.vals : SetItem(k, v)
    \/ \E k \in env.keys : RemoveItem(k)
    \/ \E pk \in PhysKeys : Lose(pk)

SpecBackup == InitBackup /\ [][NextBackup]_vars

\* ------------------------------------------------------------------------
\* Every pipeline createSafeStorage builds, over a synchronous and over an
\* asynchronous backend, one operation at a time
\* ------------------------------------------------------------------------

InitPipeline ==
    /\ cfg \in Configs
    /\ env = Env(OneKey, Vals, IF cfg.debounce THEN WaitTicks ELSE 0, {"stop"}, 1, {RoundTrip}, "none", FALSE)
    /\ InitState

NextPipeline ==
    \/ \E k \in env.keys : GetItem(k)
    \/ \E k \in env.keys, v \in env.vals : SetItem(k, v)
    \/ \E k \in env.keys : RemoveItem(k)
    \/ \E k \in env.keys, v \in env.vals : DebounceSetItem(k, v)
    \/ \E k \in env.keys : TimerFire(k)
    \/ \E pk \in PhysKeys : Lose(pk)
    \/ Tick

SpecPipeline == InitPipeline /\ [][NextPipeline]_vars

\* ------------------------------------------------------------------------
\* withChecksum, alone and under withAtomic, over a backend in which what is
\* stored under a key and under its backup key gets damaged
\* ------------------------------------------------------------------------

NextChecksum ==
    \/ \E k \in env.keys : GetItem(k)
    \/ \E k \in env.keys, v \in env.vals : SetItem(k, v)
    \/ \E k \in env.keys : RemoveItem(k)
    \/ \E pk \in PhysKeys : Lose(pk)
    \/ \E pk \in env.keys : Corrupt(pk)
    \/ \E pk \in env.keys : Truncate(pk)

InitChecksum ==
    /\ cfg \in {Config(FALSE, TRUE, FALSE, FALSE, y, DefaultMaxWait) : y \in BOOLEAN}
    /\ env = Env(OneKey, Vals, 0, {}, 0, {RoundTrip}, "every", FALSE)
    /\ InitState

SpecChecksum == InitChecksum /\ [][NextChecksum]_vars

InitRecovery ==
    /\ cfg \in {Config(FALSE, TRUE, TRUE, FALSE, y, DefaultMaxWait) : y \in BOOLEAN}
    /\ env = Env(PairKeys, {<<>>, <<"a">>}, 0, {}, 0, {RoundTrip}, "some", FALSE)
    /\ InitState

SpecRecovery == InitRecovery /\ [][NextChecksum]_vars

\* withAtomic over a synchronous and over an asynchronous backend that may
\* garble what is written under a .tmp key, so that the write fails
\* verification
InitLedger ==
    /\ cfg \in AtomicOnly
    /\ env = Env(OneKey, Vals, 0, {"garble"}, MaxFaults, {RoundTrip, RemoveRun}, "none", TRUE)
    /\ InitState

SpecLedger == InitLedger /\ [][NextAtomic]_vars

\* ------------------------------------------------------------------------
\* withDebounce over a backend, while time passes
\* ------------------------------------------------------------------------

\* a maxWait option below the default
ShortMaxWait == WaitTicks + 1

InitDebounce ==
    /\ cfg \in {Config(FALSE, FALSE, FALSE, TRUE, FALSE, mw) : mw \in {DefaultMaxWait, ShortMaxWait}}
    /\ env = Env(OneKey, {<<"a">>, <<"x", "\"">>}, Horizon, {}, 0, {RoundTrip}, "none", FALSE)
    /\ InitState

NextDebounce ==
    \/ \E k \in env.keys : GetItem(k)
    \/ \E k \in env.keys : RemoveItem(k)
    \/ \E k \in env.keys, v \in env.vals : DebounceSetItem(k, v)
    \/ \E k \in env.keys : TimerFire(k)
    \/ Tick

SpecDebounce == InitDebounce /\ [][NextDebounce]_vars

\* the last tick of the clock when two keys are written
ShortHorizon == WaitTicks

\* withDebounce under callers that write two keys
InitUnload ==
    /\ cfg = Config(FALSE, FALSE, FALSE, TRUE, FALSE, DefaultMaxWait)
    /\ env = Env(PairKeys, {<<"a">>, <<"x", "\"">>}, ShortHorizon, {}, 0, {RoundTrip}, "none", FALSE)
    /\ InitState

NextUnload ==
    \/ \E k \in env.keys : RemoveItem(k)
    \/ \E k \in env.keys, v \in env.vals : DebounceSetItem(k, v)
    \/ \E k \in env.keys : TimerFire(k)
    \/ Tick
    \/ flush

SpecUnload == InitUnload /\ [][NextUnload]_vars

\* ------------------------------------------------------------------------
\* Operations in progress at the same time, over a base whose calls return
\* promises.  An operation is a process of procs; the call on the backend
\* it waits for is in flight from the moment the call is made until the
\* backend completes it, which is when the call takes effect.
\* ------------------------------------------------------------------------

\* a Mutex that admits every caller at once
admitsAll(q, i) == \E n \in 1..Len(q) : q[n] = i

\* async-mutex: a Mutex is the queue of the callers of runExclusive that
\* have not left it, and the first of them holds it
Holds(q, i) == q # <<>> /\ Head(q) = i

getLock(key) == IF MapHas(keyLocks, key) THEN MapGet(keyLocks, key) ELSE <<>>

\* the process runs one of withAtomic's asynchronous methods
Protocol(p) == cfg.atomic /\ p.op # "probe"

Started(p) == p.pc # "start"

\* a runExclusive that releases the Mutex when its callback returns, and
\* not when it throws
returned(p) == p.halt = "done"

Finished(p) == p.halt # "run"

\* calls that reach the backend without waiting for the Mutex of withQueue
unqueuedInFlight(i) == Started(procs[i]) /\ ~Finished(procs[i])

InFlight(i) == Started(procs[i]) /\ ~Finished(procs[i]) /\ (cfg.queue => Holds(mutex, i))

\* the base.getItem(key) of the first call on withAtomic, which nothing
\* awaits
ProbeCall(key) == Await(NewCall("probe", key, Null), "probe", GetReq(key))

\* withQueue: mutex.runExclusive, for the calls on `base` just made
Enqueued(q, ids) == IF cfg.queue THEN q \o ids ELSE q

\* a method of the adapter is called
Issue(op, key, value) ==
    /\ Cardinality({i \in 1..Len(procs) : procs[i].op # "probe"}) < MaxOps
    /\ LET probing == cfg.atomic /\ ~detected
           id == Len(procs) + (IF probing THEN 2 ELSE 1)
           free == ~cfg.atomic \/ getLock(getPrimaryKey(key)) = <<>>
       IN  /\ procs' = (IF probing THEN Append(procs, ProbeCall(key)) ELSE procs)
                       \o <<IF free THEN Resume(cfg, NewCall(op, key, value), Null)
                            ELSE NewCall(op, key, value)>>
           /\ keyLocks' = IF cfg.atomic
                          THEN MapSet(keyLocks, getPrimaryKey(key),
                                      Append(getLock(getPrimaryKey(key)), id))
                          ELSE keyLocks
           /\ mutex' = Enqueued(mutex, (IF probing THEN <<id - 1>> ELSE <<>>)
                                       \o (IF free THEN <<id>> ELSE <<>>))
    /\ detected' = (detected \/ cfg.atomic)
    /\ UNCHANGED <<cfg, env, store, seqVars>>

\* the process after the call it waited for has returned
Landed(p, out) ==
    IF p.op = "probe" THEN Done(Logged(p, out), Null) ELSE Settle(cfg, Logged(p, out), out)

\* a Mutex that wakes no waiter when it is released
noHeir(p) == 0

\* the process that holds the key's Mutex once p has left it, or 0
Heir(p) ==
    IF Protocol(p) /\ Finished(p) /\ Len(getLock(getPrimaryKey(p.key))) > 1
    THEN getLock(getPrimaryKey(p.key))[2]
    ELSE 0

\* p leaves the Mutex of withQueue, and the Mutex of its key when it has
\* finished; the calls on `base` made next join the Mutex of withQueue
Handover(i, p) ==
    /\ procs' = [j \in 1..Len(procs) |->
                    IF j = i THEN p
                    ELSE IF j = Heir(p) THEN Resume(cfg, procs[j], Null)
                    ELSE procs[j]]
    /\ keyLocks' = IF Protocol(p) /\ Finished(p)
                   THEN MapSet(keyLocks, getPrimaryKey(p.key),
                               Tail(getLock(getPrimaryKey(p.key))))
                   ELSE keyLocks
    /\ mutex' = IF cfg.queue
                THEN Tail(mutex) \o (IF Finished(p) THEN <<>> ELSE <<i>>)
                                 \o (IF Heir(p) # 0 THEN <<Heir(p)>> ELSE <<>>)
                ELSE mutex

Land(i, out) == store' = out.st /\ Handover(i, Landed(procs[i], out))

\* the backend completes a call in flight
Complete(i) ==
    /\ InFlight(i)
    /\ Land(i, Perform(cfg, store, procs[i].req, "none", clock))
    /\ UNCHANGED <<cfg, env, detected, seqVars>>

NextAsync ==
    \/ \E k \in env.keys : Issue("get", k, Null)
    \/ \E k \in env.keys, v \in env.vals : Issue("set", k, v)
    \/ \E k \in env.keys : Issue("remove", k, Null)
    \/ \E i \in 1..Len(procs) : Complete(i)

\* withAtomic over an asynchronous backend, under callers that use a key and
\* the key of its backup
InitAsync ==
    /\ cfg = Config(FALSE, FALSE, TRUE, FALSE, TRUE, DefaultMaxWait)
    /\ env = Env(PairKeys, Vals, 0, {}, 0, {}, "none", FALSE)
    /\ InitState

SpecAsync == InitAsync /\ [][NextAsync]_vars

\* createSafeStorage(backend, { atomic: false }) over an asynchronous
\* backend: queue is false and checksum true when they are not given, and
\* there is no debounce
InitSafeAsync ==
    /\ cfg = Config(FALSE, TRUE, FALSE, FALSE, TRUE, DefaultMaxWait)
    /\ env = Env(OneKey, Vals, 0, {}, 0, {}, "none", FALSE)
    /\ InitState

SpecSafeAsync == InitSafeAsync /\ [][NextAsync]_vars

\* createSafeStorage(backend, { queue: true }) over an asynchronous backend:
\* withAtomic(withChecksum(withQueue(backend))), under callers that use two
\* keys
InitQueuedAtomic ==
    /\ cfg = Config(TRUE, TRUE, TRUE, FALSE, TRUE, DefaultMaxWait)
    /\ env = Env(TwoKeys, {<<"a">>, <<"x", "\"">>}, 0, {}, 0, {}, "none", FALSE)
    /\ InitState

SpecQueuedAtomic == InitQueuedAtomic /\ [][NextAsync]_vars

\* withAtomic over an asynchronous backend, under callers that use two keys
InitTwoKeys ==
    /\ cfg = Config(FALSE, FALSE, TRUE, FALSE, TRUE, DefaultMaxWait)
    /\ env = Env(TwoKeys, {<<>>, <<"a">>}, 0, {}, 0, {}, "none", FALSE)
    /\ InitState

SpecTwoKeys == InitTwoKeys /\ [][NextAsync]_vars

\* withQueue over an asynchronous backend
InitQueue ==
    /\ cfg = Config(TRUE, FALSE, FALSE, FALSE, TRUE, DefaultMaxWait)
    /\ env = Env(PairKeys, Vals, 0, {}, 0, {}, "none", FALSE)
    /\ InitState

SpecQueue == InitQueue /\ [][NextAsync]_vars

\* the processes of one behaviour: MaxOps methods and the probe
ProcIds == 1..(MaxOps + 1)

\* ------------------------------------------------------------------------
\* withAtomic, and withQueue, over an asynchronous backend whose calls may
\* reject, and whose setItem under a .tmp key may store half of the value
\* ------------------------------------------------------------------------

\* the backend fails a call in flight
Fail(i, kind) ==
    /\ InFlight(i)
    /\ faulted < env.maxFaults
    /\ Perform(cfg, store, procs[i].req, kind, clock) # Perform(cfg, store, procs[i].req, "none", clock)
    /\ Land(i, Perform(cfg, store, procs[i].req, kind, clock))
    /\ faulted' = faulted + 1
    /\ UNCHANGED <<cfg, env, detected, clock, pendingWrites, writers, last, hist, burst, unloads,
                   commits, service>>

InitFailing ==
    /\ cfg \in {Config(FALSE, FALSE, TRUE, FALSE, TRUE, DefaultMaxWait),
                Config(TRUE, FALSE, FALSE, FALSE, TRUE, DefaultMaxWait)}
    /\ env = Env(TwoKeys, {<<"a">>}, 0, {"throw", "garble"}, MaxFaults, {}, "none", FALSE)
    /\ InitState

NextFailing ==
    \/ \E k \in env.keys : Issue("get", k, Null)
    \/ \E k \in env.keys, v \in env.vals : Issue("set", k, v)
    \/ \E k \in env.keys : Issue("remove", k, Null)
    \/ \E i \in 1..Len(procs) : Complete(i)
    \/ \E i \in 1..Len(procs), kind \in env.faults : Fail(i, kind)

SpecFailing == InitFailing /\ [][NextFailing]_vars

\* the backend answers the call of process i
Answers(i) ==
    /\ i \in 1..Len(procs)
    /\ Complete(i) \/ \E kind \in env.faults : Fail(i, kind)

\* a call of process i is in flight: Answers(i) is enabled
Awaited(i) == i \in 1..Len(procs) /\ InFlight(i)

\* WF_vars(Answers(i)) for every process, ENABLED written out: every call
\* on the backend is answered
FairFailing == \A i \in ProcIds : []<>(~Awaited(i)) \/ []<><<Answers(i)>>_vars

LiveFailing == SpecFailing /\ FairFailing

\* ------------------------------------------------------------------------
\* withDebounce over an asynchronous `base`: the debounced function and the
\* unload handler call base.setItem(key, value) and drop the promise it
\* returns.  A process has in `by` who called the method: a caller of the
\* adapter, the timer of a writer, or the unload handler.
\* ------------------------------------------------------------------------

\* a method of `base` is called by `by`; s: the backend, the processes, the
\* Mutexes, isAsync !== null, and the writers
Issued(s, op, key, value, by) ==
    LET probing == cfg.atomic /\ ~s.det
        id == Len(s.procs) + (IF probing THEN 2 ELSE 1)
        lock == IF MapHas(s.locks, getPrimaryKey(key)) THEN MapGet(s.locks, getPrimaryKey(key))
                ELSE <<>>
        free == ~cfg.atomic \/ lock = <<>>
        call == [NewCall(op, key, value) EXCEPT !.by = by]
    IN  [s EXCEPT !.procs = (IF probing THEN Append(@, ProbeCall(key)) ELSE @)
                            \o <<IF free THEN Resume(cfg, call, Null) ELSE call>>,
                  !.locks = IF cfg.atomic THEN MapSet(@, getPrimaryKey(key), Append(lock, id)) ELSE @,
                  !.mutex = IF cfg.queue
                            THEN @ \o (IF probing THEN <<id - 1>> ELSE <<>>)
                                   \o (IF free THEN <<id>> ELSE <<>>)
                            ELSE @,
                  !.det = @ \/ cfg.atomic]

\* an unload handler that stores the pending value in the backend itself
directFlushWrite(s, e) ==
    LET req == SetReq(e[1], e[2])
        out == Perform(cfg, s.st, req, "none", clock)
        call == [NewCall("set", e[1], e[2]) EXCEPT !.by = "flush", !.req = req]
    IN  [s EXCEPT !.st = out.st,
                  !.procs = Append(@, Done(Logged(call, out), Null)),
                  !.w[e[1]] = cancel]

\* flush, one pending entry: writers.get(key)?.cancel(); base.setItem(key,
\* value)
FlushWrite(s, e) ==
    [Issued(s, "set", e[1], e[2], "flush") EXCEPT !.w[e[1]] = cancel]

RECURSIVE FlushWrites(_, _)
FlushWrites(s, pw) == IF pw = <<>> THEN s ELSE FlushWrites(FlushWrite(s, Head(pw)), Tail(pw))

Now == [st |-> store, procs |-> procs, locks |-> keyLocks, mutex |-> mutex, det |-> detected,
        w |-> writers]

Becomes(s) ==
    /\ store' = s.st
    /\ procs' = s.procs
    /\ keyLocks' = s.locks
    /\ mutex' = s.mutex
    /\ detected' = s.det
    /\ writers' = s.w

Room(n) == Cardinality({i \in 1..Len(procs) : procs[i].op # "probe"}) + n <= MaxOps

\* the debounced function: base.setItem(k, v); pendingWrites.delete(k)
TimerWrite(key, w, value, pw) ==
    /\ Room(1)
    /\ Becomes(Issued([Now EXCEPT !.w[key] = w], "set", key, value, "timer"))
    /\ pendingWrites' = MapDelete(pw, key)

\* withDebounce.setItem over an asynchronous base
AsyncDebounceSetItem(key, value) ==
    /\ cfg.debounce
    /\ LET d == debounced(cfg, writers[key], clock, value)
           pw == MapSet(pendingWrites, key, value)
       IN  IF d.invoke THEN TimerWrite(key, d.w, d.args, pw)
           ELSE /\ writers' = [writers EXCEPT ![key] = d.w]
                /\ pendingWrites' = pw
                /\ UNCHANGED <<store, detected, asyncVars>>
    /\ UNCHANGED <<cfg, env, clock, last, faulted, hist, burst, unloads, commits, service>>

\* the writer's setTimeout callback, at the time it is due
AsyncTimerFire(key) ==
    /\ writers[key].timer = clock
    /\ LET d == timerExpired(cfg, writers[key], clock)
       IN  IF d.invoke THEN TimerWrite(key, d.w, d.args, pendingWrites)
           ELSE /\ writers' = [writers EXCEPT ![key] = d.w]
                /\ UNCHANGED <<store, detected, pendingWrites, asyncVars>>
    /\ UNCHANGED <<cfg, env, clock, last, faulted, hist, burst, unloads, commits, service>>

\* the beforeunload / pagehide handler over an asynchronous base
AsyncFlush ==
    /\ cfg.debounce
    /\ unloads < MaxUnloads
    /\ pendingWrites # <<>>
    /\ Room(Len(pendingWrites))
    /\ Becomes(FlushWrites(Now, pendingWrites))
    /\ pendingWrites' = <<>>
    /\ unloads' = unloads + 1
    /\ UNCHANGED <<cfg, env, clock, last, faulted, hist, burst, commits, service>>

\* withDebounce.removeItem: the writer of the key is cancelled and dropped,
\* its pending value deleted; base.removeItem(key)
AsyncDebounceRemoveItem(key) ==
    /\ Room(1)
    /\ Becomes(Issued([Now EXCEPT !.w[key] = cancel], "remove", key, Null, "caller"))
    /\ pendingWrites' = MapDelete(pendingWrites, key)
    /\ UNCHANGED <<cfg, env, clock, last, faulted, hist, burst, unloads, commits, service>>

\* createSafeStorage(backend, { queue: true, checksum: false, debounce:
\* { wait } }) over an asynchronous backend
InitDebounced ==
    /\ cfg = Config(TRUE, FALSE, TRUE, TRUE, TRUE, DefaultMaxWait)
    /\ env = Env(TwoKeys, {<<"a">>}, ShortHorizon, {}, 0, {}, "none", FALSE)
    /\ InitState

NextDebounced ==
    \/ \E k \in env.keys, v \in env.vals : AsyncDebounceSetItem(k, v)
    \/ \E k \in env.keys : AsyncTimerFire(k)
    \/ AsyncFlush
    \/ \E k \in env.keys : AsyncDebounceRemoveItem(k)
    \/ \E i \in 1..Len(procs) : Complete(i)
    \/ Tick

SpecDebounced == InitDebounced /\ [][NextDebounced]_vars

\* ------------------------------------------------------------------------
\* withQueue over withAtomic: a method of the adapter is
\* mutex.runExclusive(() => atomic.method(...)), so one method runs at a
\* time and the Mutex of its key is free when it starts.  mutex is the
\* Mutex of withQueue: the methods called and not yet returned, in order.
\* ------------------------------------------------------------------------

\* a method of withQueue is called: it joins the Mutex
QueueIssue(op, key, value) ==
    /\ cfg.outside
    /\ Cardinality({i \in 1..Len(procs) : procs[i].op # "probe"}) < MaxOps
    /\ procs' = Append(procs, NewCall(op, key, value))
    /\ mutex' = Append(mutex, Len(procs) + 1)
    /\ UNCHANGED <<cfg, env, store, detected, keyLocks, seqVars>>

\* the callback of runExclusive runs and calls the method of withAtomic.
\* Over a synchronous backend the method returns; over an asynchronous one
\* it has made its first call on the backend, after the probe when isAsync
\* is null.
Admit(i) ==
    /\ cfg.outside
    /\ i \in 1..Len(procs)
    /\ Holds(mutex, i) /\ ~Started(procs[i]) /\ ~Finished(procs[i])
    /\ LET p == procs[i]
           m == RunToEnd(cfg, Begin(cfg, detected, store, p.op, p.key, p.value), NoFault, clock)
       IN  IF cfg.async
           THEN /\ procs' = [procs EXCEPT ![i] = Resume(cfg, p, Null)]
                              \o (IF detected THEN <<>> ELSE <<ProbeCall(p.key)>>)
                /\ keyLocks' = MapSet(keyLocks, getPrimaryKey(p.key), <<i>>)
                /\ UNCHANGED <<store, mutex>>
           ELSE /\ procs' = [procs EXCEPT ![i] = m.p]
                /\ store' = m.st
                /\ mutex' = Tail(mutex)
                /\ UNCHANGED keyLocks
    /\ detected' = TRUE
    /\ UNCHANGED <<cfg, env, seqVars>>

\* the backend completes a call in flight; a method that returns leaves the
\* Mutex of its key and the Mutex of withQueue
QueueComplete(i) ==
    /\ cfg.outside
    /\ i \in 1..Len(procs)
    /\ Started(procs[i]) /\ ~Finished(procs[i])
    /\ LET out == Perform(cfg, store, procs[i].req, "none", clock)
           p == Landed(procs[i], out)
           returns == Protocol(p) /\ Finished(p)
       IN  /\ store' = out.st
           /\ procs' = [procs EXCEPT ![i] = p]
           /\ keyLocks' = IF returns THEN MapSet(keyLocks, getPrimaryKey(p.key), <<>>) ELSE keyLocks
           /\ mutex' = IF returns THEN Tail(mutex) ELSE mutex
    /\ UNCHANGED <<cfg, env, detected, seqVars>>

\* withQueue and withAtomic composed in either order, over a backend of
\* either kind
Compositions ==
    {Config(TRUE, FALSE, TRUE, FALSE, y, DefaultMaxWait) : y \in BOOLEAN}
    \cup {QueueOutside(y) : y \in BOOLEAN}

InitCompose ==
    /\ cfg \in Compositions
    /\ env = Env(TwoKeys, {<<"a">>}, 0, {}, 0, {}, "none", FALSE)
    /\ InitState

NextCompose ==
    \/ ~cfg.outside /\ \E k \in env.keys : Issue("get", k, Null)
    \/ ~cfg.outside /\ \E k \in env.keys, v \in env.vals : Issue("set", k, v)
    \/ ~cfg.outside /\ \E k \in env.keys : Issue("remove", k, Null)
    \/ ~cfg.outside /\ \E i \in 1..Len(procs) : Complete(i)
    \/ \E k \in env.keys : QueueIssue("get", k, Null)
    \/ \E k \in env.keys, v \in env.vals : QueueIssue("set", k, v)
    \/ \E k \in env.keys : QueueIssue("remove", k, Null)
    \/ \E i \in ProcIds : Admit(i)
    \/ \E i \in ProcIds : QueueComplete(i)

SpecCompose == InitCompose /\ [][NextCompose]_vars

\* every call on the backend completes, and every callback of a Mutex that
\* is free runs
Proceed(i) ==
    \/ ~cfg.outside /\ i \in 1..Len(procs) /\ Complete(i)
    \/ Admit(i)
    \/ QueueComplete(i)

\* Proceed(i) is enabled: the call process i waits for is in flight on the
\* backend, or i has the Mutex of withQueue and its callback has not run
CanProceed(i) ==
    /\ i \in 1..Len(procs)
    /\ ~Finished(procs[i])
    /\ IF cfg.outside THEN Started(procs[i]) \/ Holds(mutex, i) ELSE InFlight(i)

\* WF_vars(Proceed(i)) for every process, ENABLED written out
FairCompose ==
    \A i \in ProcIds : []<>(~CanProceed(i)) \/ []<><<Proceed(i)>>_vars

LiveCompose == SpecCompose /\ FairCompose

\* ------------------------------------------------------------------------
\* Properties
\* ------------------------------------------------------------------------

\* what a stored string reads as under withAtomic
Decode(raw) == IF cfg.checksum THEN parse(raw).val ELSE raw

Kinds(h) == [i \in 1..Len(h) |-> h[i].kind]

\* C1: when a setItem(k, new) of withAtomic is interrupted by a stop, or by a
\* backend call that fails and leaves the storage as it was, the getItem(k)
\* that follows returns the value getItem(k) returned before that setItem,
\* or new.
C1_CrashConsistent ==
    \A k \in CallerKeys :
        Kinds(hist[k]) = CrashRun => hist[k][2].val \in {hist[k][1].old, hist[k][1].val}

\* a setItem stopped between its write of k.tmp and its commit, and the
\* getItem after it returned the old value
C1_Witness ==
    \E k \in env.keys :
        /\ Kinds(hist[k]) = CrashRun
        /\ last.op = "get"
        /\ hist[k][1].old \notin {Null, hist[k][1].val}
        /\ store[TmpKey(k)] = hist[k][1].val
        /\ store[BakKey(k)] = hist[k][1].old
        /\ hist[k][2].val = hist[k][1].old

\* the calls of a setItem that read k.tmp back
TmpReads(l) ==
    {i \in 1..Len(l.trace) :
        l.trace[i].op = "get" /\ l.trace[i].key = TmpKey(l.key) /\ ~l.trace[i].threw}

TmpWrites(l) ==
    {i \in 1..Len(l.trace) : l.trace[i].op = "set" /\ l.trace[i].key = TmpKey(l.key)}

Mismatch(l) ==
    l.op = "set" /\ \E i \in TmpReads(l) : l.trace[i].val # l.value

\* C3: when the value a setItem reads back from k.tmp differs from the value
\* it wrote there, the setItem throws the write-verification error, makes no
\* further call on the backend (it writes k.tmp once and does not retry),
\* and leaves the primary copy k as it was.
C3_VerificationFails ==
    [][Mismatch(last') =>
          /\ last'.halt = "thrown"
          /\ last'.err = VerificationError
          /\ store'[last'.key] = store[last'.key]
          /\ TmpReads(last') = {Len(last'.trace)}
          /\ Cardinality(TmpWrites(last')) = 1]_vars

\* a setItem over a value in k read back something else from k.tmp
C3_Witness ==
    /\ Mismatch(last)
    /\ last.err = VerificationError
    /\ store[last.key] \notin {Null, last.value}
    /\ store[TmpKey(last.key)] # last.value

\* C4 as stated: after two successful writes v1, v2 to k and the loss of the
\* primary copy, getItem(k) returns v1 and rewrites v1 under k, the getItem
\* after it returns v1, and k.bak still holds v1.
C4_BackupRestores ==
    \A k \in CallerKeys :
        LET h == hist[k]
        IN  (Len(h) >= 4 /\ h[3].kind = "L") =>
                /\ h[4].val = h[1].val
                /\ Len(h) = 4 => Decode(store[k]) = h[1].val
                /\ Decode(store[BakKey(k)]) = h[1].val
                /\ Len(h) = 5 => h[5].val = h[1].val

\* C2 as stated: once setItem(k, v) has completed on a pipeline (and, under
\* debounce, its write has been made), the getItem(k) that follows returns v,
\* whatever the pipeline, the state it started from and the string v.
C2_RoundTrip ==
    \A k \in CallerKeys : Kinds(hist[k]) = RoundTrip => hist[k][2].val = hist[k][1].val

\* a checksum envelope as section 4.3 defines it: the JSON text of an object
\* with a string d and a number c, c being the CRC-32 of d
ValidEnvelope(raw) ==
    /\ raw # Null
    /\ LET o == JsonParse(raw)
       IN  /\ o.ok /\ o.hasD /\ o.hasC
           /\ ~IsNumber(o.d) /\ IsNumber(o.c)
           /\ NormTok(Tail(o.c)) = IntToDec(crc32str(o.d))

DataOf(raw) == JsonParse(raw).d

ChecksumErrors == {"[Checksum] Parse failed", "[Checksum] Data corrupted"}

\* C5 as stated: when a getItem of withChecksum finds a string stored under
\* the key, it completes without throwing; it returns d when the string is
\* an envelope whose c is the CRC-32 of its d, and otherwise it returns
\* absent and reports a corruption.
C5_CorruptionDetected ==
    (last.op = "get" /\ store[last.key] # Null) =>
        /\ last.halt = "done"
        /\ IF ValidEnvelope(store[last.key])
           THEN last.ret = DataOf(store[last.key])
           ELSE last.ret = Null /\ \E i \in 1..Len(last.diag) : last.diag[i] \in ChecksumErrors

\* a getItem found an envelope whose d had been changed and not its c
C5_Witness ==
    /\ last.op = "get"
    /\ ~cfg.atomic
    /\ store[last.key] # Null
    /\ JsonParse(store[last.key]).ok
    /\ ~ValidEnvelope(store[last.key])
    /\ last.ret = Null
    /\ last.diag = <<"[Checksum] Data corrupted">>

\* C6 as stated: under withAtomic over withChecksum, a getItem(k) that finds
\* the primary envelope corrupt and a valid envelope under k.bak returns the
\* backup's data and leaves a valid envelope of that data under k; a
\* getItem(k) that finds neither a valid primary nor a valid backup returns
\* absent and does not throw.
C6_RecoversFromBackup ==
    [][(last'.op = "get" /\ last'.key = getPrimaryKey(last'.key)) =>
          LET primary == store[last'.key]
              backup == store[BakKey(last'.key)]
          IN  /\ (primary # Null /\ ~ValidEnvelope(primary) /\ ValidEnvelope(backup)) =>
                    /\ last'.halt = "done"
                    /\ last'.ret = DataOf(backup)
                    /\ ValidEnvelope(store'[last'.key])
                    /\ DataOf(store'[last'.key]) = DataOf(backup)
              /\ (~ValidEnvelope(primary) /\ ~ValidEnvelope(backup)) =>
                    /\ last'.halt = "done"
                    /\ last'.ret = Null]_vars

\* a getItem found the primary envelope corrupt, and restored the backup
C6_Witness ==
    /\ last.op = "get"
    /\ cfg.atomic /\ cfg.checksum
    /\ last.diag = <<"[Checksum] Data corrupted", RestoredWarning>>
    /\ last.ret = <<"a">>
    /\ ValidEnvelope(store[last.key])
    /\ DataOf(store[last.key]) = <<"a">>

\* the timers due at the end of the run's wait have run
Settled(b) == clock > b.lastT + cfg.wait

\* no write of the run was made less than `wait` after the call before it
NoneEarly(b) == \A i \in 1..Len(b.writes) : b.writes[i].t >= b.writes[i].lastT + cfg.wait

Coalesced(b) ==
    /\ NoneEarly(b)
    /\ Len(b.writes) <= 1
    /\ Settled(b) => (Len(b.writes) = 1 /\ b.writes[1].v = b.lastV)

\* C9 as stated: setItem calls on a key, each less than `wait` after the one
\* before it and all less than maxWait after the first, cause no write
\* before `wait` has passed since the last of them, and then one write,
\* of the value of the last call.
C9_Coalesces ==
    \A k \in CallerKeys :
        (burst[k].open /\ burst[k].lastT - burst[k].first < cfg.maxWait) => Coalesced(burst[k])

\* C9, amended: the same, for calls that begin with no write of the key
\* pending and no timer of its writer running, and the last of which comes
\* no later than maxWait - wait after the first.
C9_CoalescesFromIdle ==
    \A k \in CallerKeys :
        (/\ burst[k].open
         /\ burst[k].idle
         /\ burst[k].lastT + cfg.wait <= burst[k].first + cfg.maxWait) => Coalesced(burst[k])

\* three calls, one tick apart, were written once, `wait` after the third
C9_Witness ==
    \E k \in CallerKeys :
        /\ burst[k].open /\ burst[k].idle
        /\ burst[k].lastT = burst[k].first + 2
        /\ Settled(burst[k])
        /\ Len(burst[k].writes) = 1
        /\ burst[k].writes[1].t = burst[k].lastT + cfg.wait
        /\ burst[k].writes[1].v = burst[k].lastV
        /\ store[k] = burst[k].lastV

\* a write made while calls keep coming: less than `wait` after a call
Forced(w) == w.t - w.lastT < cfg.wait

\* by maxWait after the first call of the run a write has been made, of the
\* value that was the latest then
WrittenInTime(b) ==
    clock > b.first + cfg.maxWait =>
        \E i \in 1..Len(b.writes) :
            b.writes[i].t <= b.first + cfg.maxWait /\ b.writes[i].v = b.writes[i].latest

NotBefore(b) ==
    \A i \in 1..Len(b.writes) : Forced(b.writes[i]) => b.writes[i].t >= b.first + cfg.maxWait

Ops == {i \in 1..Len(procs) : procs[i].op # "probe"}

Running(i) == Started(procs[i]) /\ ~Finished(procs[i])

SameLock(i, j) == getPrimaryKey(procs[i].key) = getPrimaryKey(procs[j].key)

\* the same methods called one after the other, each called when the one
\* before it has returned
RECURSIVE SerialStore(_)
SerialRun(n) ==
    RunToEnd(cfg, Begin(cfg, TRUE, SerialStore(n - 1), procs[n].op, procs[n].key,
                        procs[n].value), NoFault, clock)

SerialStore(n) ==
    IF n = 0 THEN [pk \in PhysKeys |-> Null]
    ELSE IF procs[n].op = "probe" THEN SerialStore(n - 1)
    ELSE SerialRun(n).st

AllFinished == \A i \in 1..Len(procs) : Finished(procs[i])

\* what the methods returned and left stored is what they do one after the
\* other in the order of the calls
AsInOrder ==
    /\ \A i \in Ops : Finished(procs[i]) =>
          /\ procs[i].ret = SerialRun(i).p.ret
          /\ procs[i].err = SerialRun(i).p.err
    /\ AllFinished => store = SerialStore(Len(procs))

\* C7, the lock: an operation of withAtomic that has made a call on the
\* backend and has not returned holds the lock of its primary key, and no
\* other operation on that primary key is in that position
C7_HoldsKeyLock ==
    \A i \in Ops : Running(i) =>
        /\ Holds(getLock(getPrimaryKey(procs[i].key)), i)
        /\ \A j \in Ops \ {i} : SameLock(i, j) => ~Running(j)

\* C7, the order: of two operations on one primary key, the later called
\* makes its first call on the backend after the earlier has returned, and
\* results and stored values are those of the calls made one after the other
C7_IssueOrder ==
    /\ \A i, j \in Ops : i < j /\ SameLock(i, j) /\ Started(procs[j]) => Finished(procs[i])
    /\ AsInOrder

\* C7, the example: setItem(k, a) and setItem(k, b) called in that order on
\* an empty store, both in progress together, leave k = b and k.bak = a
C7_TwoWrites ==
    (/\ Len(procs) = 3
     /\ \A i \in Ops : procs[i].op = "set" /\ procs[i].key = <<"k">>
     /\ AllFinished)
    => /\ store[<<"k">>] = procs[3].value
       /\ store[<<"k", "bak">>] = procs[2].value

\* C7: withAtomic over an asynchronous backend: the backend calls of two
\* operations on the same primary key never interleave, every backend call
\* of an operation is made while it alone holds the key's lock, same-key
\* operations take effect in the order they were issued, and two concurrent
\* setItem(k, a), setItem(k, b) leave k = b and k.bak = a
C7_SameKeySerial == C7_HoldsKeyLock /\ C7_IssueOrder /\ C7_TwoWrites

\* two writes and a read of one primary key were in progress together, and
\* have returned
C7_Witness ==
    /\ cfg.atomic /\ cfg.async
    /\ Len(procs) = 4 /\ AllFinished
    /\ procs[2].op = "set" /\ procs[3].op = "set" /\ procs[4].op = "get"
    /\ procs[2].value # procs[3].value
    /\ procs[3].trace[1].val = procs[2].value
    /\ procs[4].ret = procs[3].value

\* C8: withQueue: across all keys at most one backend operation is in
\* flight at any time, backend operations are started in the order in which
\* the methods were called, and so the calls resolve in that order with the
\* results and the stored values of the calls made one after the other (three
\* setItem leave the third value, a getItem called before a setItem returns
\* the value from before that write)
C8_OneInFlightInCallOrder ==
    /\ Cardinality({i \in 1..Len(procs) : InFlight(i)}) <= 1
    /\ \A i, j \in 1..Len(procs) :
          i < j /\ (InFlight(j) \/ Finished(procs[j])) => Finished(procs[i])
    /\ AsInOrder
    /\ Len(procs) = 3 /\ AllFinished /\ (\A i \in 1..3 : procs[i].op = "set" /\ procs[i].key = <<"k">>)
          => store[<<"k">>] = procs[3].value
    /\ \A i, j \in 1..Len(procs) :
          /\ i < j /\ Finished(procs[i]) /\ procs[i].op = "get" /\ procs[j].op = "set"
          /\ procs[j].key = procs[i].key
          /\ \A n \in (i + 1)..(j - 1) : procs[n].key # procs[i].key
          => procs[i].ret = SerialStore(j - 1)[procs[i].key]

\* three setItem on one key, called before any of them had started on the
\* backend, have resolved, and so has a getItem called between two writes on
\* two keys while the queue was busy
C8_Witness ==
    /\ cfg.queue
    /\ Len(procs) = 3 /\ AllFinished
    /\ procs[1].op = "set" /\ procs[2].op = "get" /\ procs[3].op = "set"
    /\ procs[1].key = procs[3].key /\ procs[2].key = procs[1].key
    /\ procs[1].value # procs[3].value
    /\ procs[2].ret = procs[1].value
    /\ store[procs[3].key] = procs[3].value


\* ------------------------------------------------------------------------
\* withDebounce: removeItem, getItem and the unload handler
\* ------------------------------------------------------------------------

\* the calls a method or a handler made on the backend
Calls(l, op, key) == {i \in 1..Len(l.trace) : l.trace[i].op = op /\ l.trace[i].key = key}

\* C11: withDebounce.removeItem(k) issues the physical remove at once, and
\* no physical setItem of k is issued afterwards, by the timer or by the
\* unload handler, unless setItem(k, v) is called again, and then with the
\* value of a call made after the removeItem
C11_RemoveCancels ==
    /\ last.op = "remove" =>
          /\ last.trace = <<[op |-> "remove", key |-> last.key, text |-> <<>>, val |-> Null,
                             threw |-> FALSE]>>
          /\ store[last.key] = Null
          /\ ~MapHas(pendingWrites, last.key)
          /\ writers[last.key].timer = NoTime
    /\ \A k \in CallerKeys :
          /\ ~burst[k].open => burst[k].writes = <<>>
          /\ \A i \in 1..Len(burst[k].writes) : burst[k].writes[i].v = burst[k].writes[i].latest

\* a removeItem found a value pending; the time its timer was due has come,
\* the unload handler has run since, and the key is still absent
C11_Witness ==
    \E k \in CallerKeys :
        /\ burst[k].cancelled # Null /\ burst[k].due # NoTime
        /\ ~burst[k].open
        /\ clock >= burst[k].due
        /\ last.op = "flush"
        /\ \E j \in CallerKeys \ {k} : Calls(last, "set", j) # {}
        /\ store[k] = Null


\* C12: withDebounce.getItem(k) makes one call, the inner getItem(k), and
\* returns what it returns: the backend's value of k, which stays what it
\* was for as long as a setItem(k, v) is pending
C12_ReadsThrough ==
    /\ [](last.op = "get" =>
            /\ last.trace = <<[op |-> "get", key |-> last.key, text |-> <<>>,
                               val |-> store[last.key], threw |-> FALSE]>>
            /\ last.ret = store[last.key])
    /\ [][\A k \in CallerKeys :
             MapHas(pendingWrites, k) /\ MapHas(pendingWrites', k) => store'[k] = store[k]]_vars

\* a getItem returned the value written earlier while another value was
\* pending for the key
C12_Witness ==
    /\ cfg.debounce
    /\ last.op = "get"
    /\ MapHas(pendingWrites, last.key)
    /\ last.ret # Null
    /\ last.ret # MapGet(pendingWrites, last.key)


\* the unload handler runs in this step
Unloading == unloads' = unloads + 1

C14_BackupIsPrior ==
    \A k \in env.keys : store[BakKey(k)] # Null => store[BakKey(k)] = commits[k].prev


\* C15 as stated: whenever no setItem for a key K is in progress, also after
\* a setItem that ended in a write-verification error or a backend error,
\* the backend holds no value under K.tmp
C15_NoTmpAtRest ==
    \A k \in env.keys : store[TmpKey(k)] = Null

\* a setItem has ended in a write-verification error
C15_Witness ==
    /\ last.op = "set" /\ last.halt = "thrown" /\ last.err = VerificationError
    /\ store[TmpKey(last.key)] # Null


\* C16: once a removeItem(k) of withAtomic has completed, the backend holds
\* none of k, k.bak, k.tmp, and the getItem(k) that follows returns absent,
\* whatever backup the writes before it had created
C16_RemoveLeavesNothing ==
    /\ (last.op = "remove" /\ last.halt = "done") =>
          /\ store[last.key] = Null
          /\ store[BakKey(last.key)] = Null
          /\ store[TmpKey(last.key)] = Null
          /\ Run("get", last.key, Null, NoFault).p.ret = Null
    /\ \A k \in env.keys : Kinds(hist[k]) = RemoveRun => hist[k][Len(RemoveRun)].val = Null

\* two different values were written, the second over a backup of the
\* first; the key was removed, and the getItem after it has returned
C16_Witness ==
    \E k \in env.keys :
        /\ cfg.atomic
        /\ Kinds(hist[k]) = RemoveRun
        /\ hist[k][1].val # <<>> /\ hist[k][2].val # <<>>
        /\ hist[k][1].val # hist[k][2].val
        /\ last.op = "get" /\ last.ret = Null


\* ------------------------------------------------------------------------
\* A service: the calls of its caller, the callbacks of its store and what
\* other tabs do to the storage it shares with them.
\* ------------------------------------------------------------------------
storageVars ==
    <<cfg, env, store, detected, clock, pendingWrites, writers, last, faulted, hist, burst,
      procs, keyLocks, mutex, unloads, commits>>

RemoveAt(q, i) == SubSeq(q, 1, i - 1) \o SubSeq(q, i + 1, Len(q))

\* hydrate(): await persist.rehydrate()
hydrate ==
    /\ service.rehydrates < MaxLoads
    /\ \E o \in GetOutcomes :
          service' = rehydrate([service EXCEPT !.hydrateCalls = @ + 1], "hydrate", o)
    /\ UNCHANGED storageVars

\* the microtask queued at construction runs
Microtask ==
    /\ service.microtask
    /\ service' = microtask(service)
    /\ UNCHANGED storageVars

\* an asynchronous adapter answers the getItem of a rehydration; the
\* microtask queued at construction has run by then
Answer(i, o) ==
    /\ ~service.microtask
    /\ service' = settle([service EXCEPT !.inflight = RemoveAt(@, i)], service.inflight[i], o)
    /\ UNCHANGED storageVars

\* another tab stores newValue under a key, or removes the key; the window
\* of this one gets a "storage" event
StorageEvent(key, newValue) ==
    /\ key = storageKey => newValue # service.persisted
    /\ LET s == IF key = storageKey THEN [service EXCEPT !.persisted = newValue] ELSE service
       IN  IF s.listening
           THEN /\ s.rehydrates < MaxLoads
                /\ \E o \in GetOutcomes : service' = handleStorageChange(s, key, newValue, o)
           ELSE service' = s
    /\ UNCHANGED storageVars

\* clearStorage(): storageAdapter.removeItem(`${name}-storage`)
clearStorage ==
    /\ service.persisted # Absent
    /\ service' = [service EXCEPT !.persisted = Absent]
    /\ UNCHANGED storageVars

destroy ==
    /\ ~service.stopped
    /\ service' = destroyed(service)
    /\ UNCHANGED storageVars

\* the caller calls waitForHydration()
WaitForHydration ==
    /\ Len(service.waiters) < MaxWaits
    /\ service' = waitForHydration(service)
    /\ UNCHANGED storageVars

\* the caller calls an action that sets a field of the state
Mutate(field, value) ==
    /\ service.mutations < MaxMutations
    /\ service' = mutated(service, field, value)
    /\ UNCHANGED storageVars

NoStorage ==
    /\ cfg = Config(FALSE, TRUE, TRUE, FALSE, FALSE, DefaultMaxWait)
    /\ env = Env(OneKey, Vals, 0, {}, 0, {RoundTrip}, "none", FALSE)
    /\ StorageAtRest

\* a state of the current version the schema accepts, and one it rejects
Five == Envelope([Default EXCEPT !.count = "5"], 1)

Bad == Envelope([Default EXCEPT !.count = Rejected], 1)

\* a rejected state that has no temp
BadCount == Envelope([NoState EXCEPT !.count = Rejected], 1)

Contents == {Absent, Text("empty"), Text("garbage"), Five, Bad, BadCount}

Options ==
    {StoreOptions(k, p, x, z, y) :
        k \in BOOLEAN, p \in {"reset", "keep"}, x \in BOOLEAN, z \in BOOLEAN, y \in BOOLEAN}

InitHydration ==
    /\ NoStorage
    /\ service \in {Constructed(o, Contents, c, g) : o \in Options, c \in Contents, g \in GetOutcomes}

NextHydration ==
    \/ hydrate
    \/ Microtask
    \/ \E i \in 1..Len(service.inflight), o \in GetOutcomes : Answer(i, o)
    \/ \E key \in EventKeys, newValue \in service.world : StorageEvent(key, newValue)
    \/ clearStorage
    \/ destroy

SpecHydration == InitHydration /\ [][NextHydration]_vars

\* what a store of version 0 stored: the value 5 in its format, the value 5
\* in the format of version 1, and a count no version accepts
OldStored == Envelope([Default EXCEPT !.count = OldFive], 0)

OldValid == Envelope([Default EXCEPT !.count = "5"], 0)

OldBad == Envelope([Default EXCEPT !.count = Rejected], 0)

VersionedContents == {Absent, OldStored, OldValid, OldBad, Five}

\* stores of version 1 that hydrate when they are made, with and without a
\* migrate function and a schema
MigrationOptions ==
    {[StoreOptions(FALSE, p, FALSE, z, y) EXCEPT !.migrate = m] :
        p \in {"reset", "keep"}, z \in BOOLEAN, y \in BOOLEAN, m \in BOOLEAN}

InitMigration ==
    /\ NoStorage
    /\ service \in {Constructed(o, VersionedContents, c, "value") :
                       o \in MigrationOptions, c \in VersionedContents}

NextMigration ==
    \/ hydrate
    \/ Microtask
    \/ \E i \in 1..Len(service.inflight) : Answer(i, "value")
    \/ \E newValue \in service.world : StorageEvent(storageKey, newValue)

SpecMigration == InitMigration /\ [][NextMigration]_vars

\* stores with and without a partialize that keeps count alone, and the
\* calls of their actions
WriteOptions ==
    {[StoreOptions(k, "reset", FALSE, FALSE, y) EXCEPT !.partialize = part] :
        k \in BOOLEAN, y \in BOOLEAN, part \in {Fields, {"count"}}}

Temps == {"t", "u"}

InitWrite ==
    /\ NoStorage
    /\ service \in {Constructed(o, {Absent, Five}, c, "value") : o \in WriteOptions, c \in {Absent, Five}}

NextWrite ==
    \/ \E value \in Numbers : Mutate("count", value)
    \/ \E value \in Temps : Mutate("temp", value)
    \/ hydrate
    \/ Microtask
    \/ \E i \in 1..Len(service.inflight) : Answer(i, "value")

SpecWrite == InitWrite /\ [][NextWrite]_vars

\* stores whose callers wait for their hydration, and destroy them
WaitOptions == {StoreOptions(k, "reset", FALSE, FALSE, y) : k \in BOOLEAN, y \in BOOLEAN}

InitWait ==
    /\ NoStorage
    /\ service \in {Constructed(o, {Five}, Five, g) : o \in WaitOptions, g \in {"value", "error"}}

NextWait ==
    \/ WaitForHydration
    \/ hydrate
    \/ Microtask
    \/ \E i \in 1..Len(service.inflight), o \in {"value", "error"} : Answer(i, o)
    \/ destroy

SpecWait == InitWait /\ [][NextWait]_vars

\* ------------------------------------------------------------------------
\* C17
\* ------------------------------------------------------------------------
\* the composition withDebounce(withAtomic(withChecksum(withQueue(backend)))),
\* the caller's side first
FullStack == <<"withDebounce", "withAtomic", "withChecksum", "withQueue">>

Enabled(o, f) ==
    CASE f = "withDebounce" -> o.debounce
      [] f = "withAtomic" -> o.atomic
      [] f = "withChecksum" -> o.checksum
      [] OTHER -> o.queue

Keep(f) == Enabled(cfg, f)

\* the setItem calls the last operation made on the adapter under
\* withAtomic, in order
SetCalls(l) == SelectSeq(l.trace, LAMBDA c : c.op = "set")

C18_HasHydratedMonotonic ==
    /\ [](\A i, j \in 1..Len(service.emitted) :
              (i < j /\ service.emitted[i].hasHydrated) => service.emitted[j].hasHydrated)
    /\ [][service.hydrationState.hasHydrated => service'.hydrationState.hasHydrated]_vars

\* a hydrated service has rehydrated after a "storage" event, the load threw
\* an Error, and hydrationState$ has emitted the outcome
C18_Witness ==
    /\ service.hydrateCalls > 0
    /\ service.done.by = "tab" /\ service.done.threw = "error"
    /\ service.hydrationState.hasHydrated /\ service.hydrationState.hydrationError = "Error"
    /\ service.emitted[Len(service.emitted)] = service.hydrationState
    /\ \E i \in 1..Len(service.emitted) : service.emitted[i].hasHydrated /\ i < Len(service.emitted)


\* ------------------------------------------------------------------------
\* C19
\* ------------------------------------------------------------------------
\* C19 as stated: with skipHydration, hasHydrated is false as long as the
\* caller has not called hydrate(), and the state of the store is the
\* caller's default as long as no hydrate() call has resolved, whatever the
\* adapter holds and whatever else happens.
C19_SkipHydration ==
    service.opts.skipHydration =>
        /\ service.hydrateCalls = 0 => ~service.hydrationState.hasHydrated
        /\ service.resolved = 0 => service.state = Default

\* a service made with skipHydration, whose caller never called hydrate(),
\* has loaded what another tab stored
C19_Witness ==
    /\ service.opts.skipHydration /\ service.opts.enableCrossTabSync
    /\ service.hydrateCalls = 0
    /\ service.done.by = "tab"
    /\ service.hydrationState.hasHydrated
    /\ service.state.count = "5"


\* ------------------------------------------------------------------------
\* C20
\* ------------------------------------------------------------------------
\* the rehydration that ended last loaded a value the schema rejected, under
\* the policy "reset"
ResetApplied == service.done.rejected /\ service.opts.onValidationFail = "reset"

\* C20 as stated: when a rehydration under the policy "reset" has loaded a
\* value that fails the schema, then once it has ended the state of the
\* store is the caller's default, usedFallback and hasHydrated are true,
\* hydrationError is null and the validation warning has been written.
C20_ResetFallback ==
    ResetApplied =>
        /\ service.state = Default
        /\ service.hydrationState =
              [hasHydrated |-> TRUE, hydrationError |-> NoError, usedFallback |-> TRUE]
        /\ ValidationFailed \in service.diag

\* a store that had loaded a valid state rehydrated when the adapter held a
\* value the schema rejects, and kept the state it had
C20_Witness ==
    /\ ResetApplied
    /\ service.done.found = Bad
    /\ service.done.before.count = "5"
    /\ service.state.count = "5"
    /\ service.hydrationState.usedFallback


\* ------------------------------------------------------------------------
\* C21
\* ------------------------------------------------------------------------
\* the rehydration that ended last loaded a value the schema rejected, under
\* the policy "keep"
KeepApplied == service.done.rejected /\ service.opts.onValidationFail = "keep"

LoadFailed == service.done.threw # "none"

\* C22 as stated: when the load of a rehydration has failed, the error is in
\* hydrationError, hasHydrated is true and the state of the store is the
\* caller's default.
C22_LoadFailure ==
    LoadFailed =>
        /\ service.hydrationState.hydrationError # NoError
        /\ service.hydrationState.hasHydrated
        /\ service.state = Default

\* the getItem of the first rehydration was rejected with a value that is
\* no Error, and hydrationError is null
C22_Witness ==
    /\ service.rehydrates = 1
    /\ service.done.threw = "other"
    /\ service.hydrationState.hasHydrated
    /\ service.hydrationState.hydrationError = NoError
    /\ ~service.hydrationState.usedFallback


\* ------------------------------------------------------------------------
\* C23
\* ------------------------------------------------------------------------
\* the rehydration that ended last found a value of another version
OtherVersion ==
    /\ service.done.by # "none" /\ service.done.threw = "none"
    /\ service.done.found.kind = "json"
    /\ service.done.found.version # service.opts.version

\* C23 as stated: with a schema and a migrate function, a persisted value
\* of another version that the schema accepts once migrated hydrates
\* cleanly: it is not treated as a validation failure, usedFallback stays
\* false, and the state of the store is the migrated state.
C23_MigrateThenValidate ==
    (OtherVersion /\ service.opts.schema /\ service.opts.migrate
       /\ safeParse(migrate(service.done.found.state))) =>
        /\ ~service.done.rejected
        /\ service.rehydrates = 1 => ~service.hydrationState.usedFallback
        /\ service.state = merge(migrate(service.done.found.state), service.done.before)

\* under "reset", the first rehydration found the value 5 as version 0
\* stored it: the store is at its default and usedFallback is true
C23_Witness ==
    /\ OtherVersion /\ service.opts.schema /\ service.opts.migrate
    /\ service.opts.onValidationFail = "reset"
    /\ service.rehydrates = 1
    /\ service.done.found = OldStored
    /\ service.state = Default
    /\ service.hydrationState.usedFallback
    /\ ValidationFailed \in service.diag


\* ------------------------------------------------------------------------
\* C24
\* ------------------------------------------------------------------------
\* C24 as stated: a rehydration that finds a value of another version, with
\* no migrate function, sets usedFallback, and leaves the state of the store
\* at the caller's default under "reset" and at the persisted value under
\* "keep".
C24_MismatchIsValidationFailure ==
    (OtherVersion /\ ~service.opts.migrate) =>
        /\ service.hydrationState.usedFallback
        /\ service.state = IF service.opts.onValidationFail = "keep"
                           THEN merge(service.done.found.state, service.done.before)
                           ELSE Default

\* under "keep", the first rehydration found a state of version 0 that the
\* schema accepts: the store is at its default, usedFallback is false and
\* the console has the error of persist
C24_Witness ==
    /\ OtherVersion /\ ~service.opts.migrate
    /\ service.opts.schema /\ service.opts.onValidationFail = "keep"
    /\ service.rehydrates = 1
    /\ service.done.found = OldValid
    /\ service.state = Default
    /\ ~service.hydrationState.usedFallback
    /\ service.diag = {NotMigrated}


\* ------------------------------------------------------------------------
\* C25
\* ------------------------------------------------------------------------
\* an action of the store sets its state in this step
Mutating == service'.mutations = service.mutations + 1

\* C25: every call of an action that sets the state makes one setItem on the
\* adapter, under `${name}-storage`, of { state, version } with the declared
\* version and the state partialize gives for the new state of the store,
\* the whole state when there is no partialize; a field partialize leaves
\* out is in nothing the store has stored.
C25_WritePath ==
    /\ [][Mutating =>
             /\ service'.setItems = service.setItems + 1
             /\ service'.persisted.kind = "json"
             /\ service'.persisted.version = service.opts.version
             /\ \A f \in Fields :
                   service'.persisted.state[f] =
                       IF f \in service.opts.partialize THEN service'.state[f] ELSE Missing]_vars
    /\ [](service.setItems > 0 =>
             \A f \in Fields \ service.opts.partialize : service.persisted.state[f] = Missing)

\* a store that persists count alone has had count and then temp set: what
\* is stored has the count and no temp
C25_Witness ==
    /\ service.opts.partialize = {"count"}
    /\ service.mutations = 2 /\ service.setItems = 2
    /\ service.state = [count |-> "5", temp |-> "u"]
    /\ service.persisted = Envelope([count |-> "5", temp |-> Missing], 1)


\* ------------------------------------------------------------------------
\* C26
\* ------------------------------------------------------------------------
Waiters == 1..Len(service.waiters)

\* C26 as stated: the promise of a waitForHydration call is pending while
\* hasHydrated is false and is resolved, with a state that has hasHydrated,
\* from the first state on in which hasHydrated is true.
C26_WaitForHydration ==
    \A i \in Waiters :
        /\ service.waiters[i].status =
              IF service.hydrationState.hasHydrated THEN "resolved" ELSE "pending"
        /\ service.waiters[i].status = "resolved" => service.waiters[i].value.hasHydrated

\* what holds of waitForHydration: as long as the store has not been
\* destroyed, the promise of a call is pending while hasHydrated is false, and it is
\* resolved in the step in which hasHydrated becomes true, with the state
\* of that step; a call made when hasHydrated is true is resolved with the
\* state it finds; a promise is never resolved with a state that has not
\* hasHydrated.  destroy rejects the promises that are pending, and a call
\* made after it while hasHydrated is false is rejected.
WaitUnlessDestroyed ==
    /\ [](\A i \in Waiters :
            LET w == service.waiters[i]
            IN  /\ w.status = "pending" => ~service.hydrationState.hasHydrated /\ ~service.stopped
                /\ w.status = "resolved" => w.value.hasHydrated /\ service.hydrationState.hasHydrated
                /\ w.status = "rejected" => service.stopped /\ ~w.value.hasHydrated
                /\ ~service.stopped =>
                      w.status = IF service.hydrationState.hasHydrated THEN "resolved" ELSE "pending"
                /\ ~w.early => w.status = "resolved")
    /\ [][\A i \in Waiters :
            /\ (service.waiters[i].status = "pending" /\ service'.hydrationState.hasHydrated) =>
                  service'.waiters[i] =
                      [service.waiters[i] EXCEPT !.status = "resolved", !.value = service'.hydrationState]
            /\ service.waiters[i].status # "pending" => service'.waiters[i] = service.waiters[i]]_vars

\* a promise that was pending when the store was destroyed is rejected, and
\* the store has hydrated since
C26_Witness ==
    /\ service.waiters # <<>>
    /\ service.waiters[1].status = "rejected"
    /\ service.stopped
    /\ service.hydrationState.hasHydrated
    /\ service.done.by = "hydrate"


\* ------------------------------------------------------------------------
\* C30
\* ------------------------------------------------------------------------
\* no rehydration of the store has ended
NoneLoaded == service.done.by = "none"

\* C30 as stated: as long as no load from the storage adapter has finished,
\* hasHydrated is false and no promise of waitForHydration is resolved,
\* with and without skipHydration.
C30_HydratedAfterLoad ==
    NoneLoaded =>
        /\ ~service.hydrationState.hasHydrated
        /\ \A i \in Waiters : service.waiters[i].status # "resolved"

\* the load a store began when it was made is waiting for its asynchronous
\* adapter; hasHydrated is true and a promise of waitForHydration has
\* resolved, with the store at its default
C30_Witness ==
    /\ ~service.opts.skipHydration /\ service.opts.async
    /\ NoneLoaded /\ service.inflight = <<"auto">>
    /\ service.hydrationState.hasHydrated
    /\ service.waiters # <<>> /\ service.waiters[1].early /\ service.waiters[1].status = "resolved"
    /\ service.state = Default /\ service.persisted = Five


\* ------------------------------------------------------------------------
\* C27
\* ------------------------------------------------------------------------
\* the methods called so far are setItem calls on the key k, and all have
\* returned
WritesDone(k) ==
    /\ Len(procs) > 1 /\ AllFinished
    /\ \A i \in 1..Len(procs) : procs[i].op = "set" /\ procs[i].key = k

\* C27 as stated: on createSafeStorage(asyncBackend, { atomic: false }),
\* once setItem calls on one key made while the earlier ones were in
\* progress have all returned, getItem returns the value of the call made
\* last, in whatever order the backend completed its calls.
C27_LastWriteWins ==
    \A k \in env.keys :
        WritesDone(k) => Run("get", k, Null, NoFault).p.ret = procs[Len(procs)].value

\* two setItem calls on a key were in progress together, the backend
\* completed the second first, and the key holds the value of the first
C27_Witness ==
    /\ createSafeStorage(cfg) = <<"withChecksum">>
    /\ Len(procs) = 2 /\ WritesDone(<<"k">>)
    /\ procs[1].value # procs[2].value
    /\ Run("get", <<"k">>, Null, NoFault).p.ret = procs[1].value


C29_DifferentKeysConcurrent ==
    /\ \A j \in Ops :
          ~Started(procs[j]) =>
              \E i \in Ops : i < j /\ procs[i].key = procs[j].key /\ ~Finished(procs[i])
    /\ \A i, j \in Ops :
          (/\ AllFinished /\ Ops = {i, j} /\ procs[i].key # procs[j].key
           /\ procs[i].op = "set" /\ procs[j].op = "set")
          => store[procs[i].key] = procs[i].value /\ store[procs[j].key] = procs[j].value

\* setItem on each of two keys: the one called later has stored its .tmp
\* copy while the one called first, which has stored its own, has not
\* returned
C29_Witness ==
    /\ ~cfg.queue /\ cfg.atomic
    /\ \E i, j \in Ops :
          /\ i < j /\ procs[i].key # procs[j].key
          /\ procs[i].op = "set" /\ procs[j].op = "set"
          /\ Running(i) /\ Running(j)
          /\ store[TmpKey(procs[i].key)] = procs[i].value
          /\ store[TmpKey(procs[j].key)] = procs[j].value


\* ------------------------------------------------------------------------
\* C31
\* ------------------------------------------------------------------------
\* the rehydration that ended last found a value of the store's version
\* that the schema accepts
ValidLoaded ==
    /\ service.done.by # "none"
    /\ service.done.threw = "none"
    /\ service.done.found.kind = "json"
    /\ service.done.found.version = service.opts.version
    /\ safeParse(service.done.found.state)

\* C31: after a rehydration, the first or a later one, of a store with a
\* schema that found a value of the store's version that the schema accepts,
\* hasHydrated is true, usedFallback false and hydrationError null, whatever
\* the rehydrations before it made of the HydrationState.
C31_CleanAfterValidLoad ==
    (service.opts.schema /\ ValidLoaded) =>
        service.hydrationState = [hasHydrated |-> TRUE, hydrationError |-> NoError,
                                  usedFallback |-> FALSE]

\* a second rehydration has found a valid value and merged it into the
\* state, after a first one that found a value the schema rejects
C31_Witness ==
    /\ service.opts.schema /\ ValidLoaded
    /\ service.rehydrates = 2
    /\ service.done.by \in {"hydrate", "tab"}
    /\ service.state.count = "5"
    /\ ValidationFailed \in service.diag


\* ------------------------------------------------------------------------
\* C32
\* ------------------------------------------------------------------------
\* C32: with checksum and atomic enabled, whatever a call of the pipeline
\* (one a caller makes, or the one a debounce timer makes) leaves newly
\* stored in the backend, under a key, its .bak key or its .tmp key, is an
\* envelope whose c is the CRC-32 of its d, d being a value a caller wrote:
\* no value is stored as the caller gave it.
C32_WritesAreEnvelopes ==
    [][(cfg.checksum /\ cfg.atomic) =>
          \A pk \in PhysKeys :
              (store'[pk] # store[pk] /\ store'[pk] # Null) =>
                  /\ ValidEnvelope(store'[pk])
                  /\ DataOf(store'[pk]) \in env.vals
                  /\ store'[pk] \notin env.vals]_vars

\* a second setItem has completed: the key holds an envelope of its value
\* and the .bak key an envelope of the value before
C32_Witness ==
    /\ cfg.checksum /\ cfg.atomic
    /\ last.op = "set" /\ last.halt = "done"
    /\ \E k \in env.keys :
          /\ last.key = k
          /\ ValidEnvelope(store[k]) /\ DataOf(store[k]) = last.value
          /\ ValidEnvelope(store[BakKey(k)]) /\ DataOf(store[BakKey(k)]) # last.value


FlushCaused(i) == procs'[i].by \in {"timer", "flush"}

\* a call of process i on the backend takes effect in this step
CallLands(i) ==
    Len(procs'[i].trace) > (IF i <= Len(procs) THEN Len(procs[i].trace) ELSE 0)

C35_GetItemReadsOnly ==
    [][(cfg.checksum /\ ~cfg.atomic /\ last'.op = "get") =>
          /\ store' = store
          /\ Len(last'.trace) = 1
          /\ last'.trace[1].op = "get" /\ last'.trace[1].key = last'.key]_vars

\* a getItem found an envelope cut short, reported that it does not parse
\* and returned absent; what is left of the envelope is still stored
C35_Witness ==
    /\ cfg.checksum /\ ~cfg.atomic
    /\ last.op = "get" /\ last.halt = "done" /\ last.ret = Null
    /\ last.diag = <<"[Checksum] Parse failed">>
    /\ Len(last.trace) = 1
    /\ store[last.key] # Null /\ store[last.key] # <<>>


\* ------------------------------------------------------------------------
\* C36
\* ------------------------------------------------------------------------
\* a method of withAtomic called now and run to its end, over a synchronous
\* backend (async FALSE) and over an asynchronous one that holds the same
\* strings
PathRun(async, op, key, value) ==
    LET c == [cfg EXCEPT !.async = async]
    IN  RunToEnd(c, Begin(c, detected, store, op, key, value), NoFault, clock)

SamePaths(op, key, value) ==
    LET a == PathRun(FALSE, op, key, value)
        b == PathRun(TRUE, op, key, value)
    IN  /\ a.p.halt = b.p.halt
        /\ a.p.ret = b.p.ret
        /\ a.p.err = b.p.err
        /\ a.st = b.st

\* C36 as stated: called one after the other, on any keys, the methods of
\* withAtomic return the same and leave the same in the backend whether the
\* backend is synchronous or asynchronous: from every state such calls
\* reach, each method does the same on the two paths.
C36_PathsEquivalent ==
    \A k \in env.keys :
        /\ SamePaths("get", k, Null)
        /\ SamePaths("remove", k, Null)
        /\ \A v \in env.vals : SamePaths("set", k, v)

\* nothing is stored under the key k.bak and a value under k.bak.bak: the
\* getItem of k.bak restores it on one path and returns absent on the other
C36_Witness ==
    /\ cfg.atomic /\ ~cfg.checksum
    /\ store[<<"k", "bak">>] = Null
    /\ ~Falsy(store[<<"k", "bak", "bak">>])
    /\ PathRun(FALSE, "get", <<"k", "bak">>, Null).p.ret = store[<<"k", "bak", "bak">>]
    /\ PathRun(TRUE, "get", <<"k", "bak">>, Null).p.ret = Null


\* ------------------------------------------------------------------------
\* C37
\* ------------------------------------------------------------------------
\* process i has thrown: the backend rejected a call of it, or its setItem
\* read back from .tmp another value than it wrote
Failed(i) == procs[i].halt = "thrown"

\* the processes in the queue of a Mutex
Queued(q) == {q[n] : n \in 1..Len(q)}

\* C37: a method of withAtomic or of withQueue that has thrown holds no
\* Mutex; and every method on the same key (withAtomic), or on any key
\* (withQueue), that is called before or after it threw returns or throws in
\* the end.
C37_LocksReleasedOnFailure ==
    /\ [](\A i \in 1..Len(procs) :
            Failed(i) =>
                /\ i \notin Queued(mutex)
                /\ \A n \in 1..Len(keyLocks) : i \notin Queued(keyLocks[n][2]))
    /\ \A j \in ProcIds :
          (/\ Len(procs) >= j
           /\ \E i \in 1..Len(procs) : i # j /\ Failed(i) /\ (cfg.atomic => SameLock(i, j)))
          ~> (Len(procs) >= j /\ Finished(procs[j]))

\* a setItem threw the write-verification error while a setItem on the same
\* key called after it had not started; that one has returned since
C37_Witness ==
    \E i, j \in 1..Len(procs) :
        /\ i < j /\ SameLock(i, j)
        /\ procs[i].op = "set" /\ Failed(i) /\ procs[i].err = VerificationError
        /\ procs[j].op = "set" /\ procs[j].halt = "done"
        /\ Len(procs[i].trace) + Len(procs[j].trace) > 3
        /\ faulted = 1


\* ------------------------------------------------------------------------
\* C38
\* ------------------------------------------------------------------------
\* what a method called now leaves in the backend, and what getItem(key)
\* returns from a backend st
Leaves(op, key, value) == RunToEnd(cfg, Begin(cfg, detected, store, op, key, value), NoFault, clock).st

Reads(st, key) == RunToEnd(cfg, Begin(cfg, TRUE, st, "get", key, Null), NoFault, clock).p.ret

\* the method on key leaves what getItem(other) returns as it was
Isolated(op, key, value, other) == Reads(Leaves(op, key, value), other) = Reads(store, other)

\* C38 as stated: for distinct caller keys K and K2, K2 = K + '.bak'
\* included, a getItem, setItem or removeItem of withAtomic on K leaves
\* what getItem(K2) returns unchanged.
C38_KeyIsolation ==
    \A k \in env.keys : \A other \in env.keys \ {k} :
        /\ Isolated("get", k, Null, other)
        /\ Isolated("remove", k, Null, other)
        /\ \A v \in env.vals : Isolated("set", k, v, other)

\* 'a' is stored under k and nothing under k.bak or k.bak.bak: getItem(k.bak)
\* returns absent now, and 'a' after a setItem(k, 'a')
C38_Witness ==
    /\ cfg.atomic
    /\ store[<<"k">>] = <<"a">>
    /\ Reads(store, <<"k", "bak">>) = Null
    /\ Reads(Leaves("set", <<"k">>, <<"a">>), <<"k", "bak">>) = <<"a">>
    /\ last.op = "set" /\ last.halt = "done"


\* ------------------------------------------------------------------------
\* C39
\* ------------------------------------------------------------------------
\* the removes a run has made on the backend
Removes(trace) == {n \in 1..Len(trace) : trace[n].op = "remove"}

\* this step is a removeItem of withAtomic during which the process stops
\* after its first or its second remove on the backend
RemoveInterrupted ==
    /\ cfg.atomic
    /\ last'.op = "remove" /\ last'.halt = "stopped"
    /\ Cardinality(Removes(last'.trace)) \in {1, 2}

\* what getItem(key) returns after the step, in the process started anew
ReadsNext(key) == RunToEnd(cfg, Begin(cfg, detected', store', "get", key, Null), NoFault, clock').p.ret

\* C39 as stated: after a removeItem(k) of withAtomic that is interrupted
\* between two of its removes on the backend, getItem(k) returns what it
\* returned right before the removeItem, or absent.
C39_RemoveCrashConsistent ==
    [][RemoveInterrupted =>
          ReadsNext(last'.key) \in {Null, Run("get", last'.key, Null, NoFault).p.ret}]_vars

\* a removeItem(k) stopped after it removed k and before it removed k.bak:
\* getItem(k) returns what k.bak holds
C39_Witness ==
    /\ cfg.atomic
    /\ last.op = "remove" /\ last.halt = "stopped" /\ Cardinality(Removes(last.trace)) = 1
    /\ store[last.key] = Null
    /\ ~Falsy(store[BakKey(last.key)])
    /\ Reads(store, last.key) = store[BakKey(last.key)]


\* ------------------------------------------------------------------------
\* C40
\* ------------------------------------------------------------------------
\* no rehydration of the store has ended: it was made with skipHydration
\* and hydrate has not been called, or its load is in flight
Unhydrated(s) ==
    /\ s.done = NoDone
    /\ \/ s.opts.skipHydration /\ s.hydrateCalls = 0
       \/ Len(s.inflight) > 0

\* C40 as stated: an action called on a store that has not hydrated leaves
\* what is persisted under the key of the store as it was.
C40_NoLossBeforeHydration ==
    [][(Unhydrated(service) /\ service'.mutations = service.mutations + 1)
          => service'.persisted = service.persisted]_vars

\* the first rehydration of a store made with skipHydration, a call of
\* hydrate, has loaded what an action called before it had stored: temp is
\* 'u', which nothing was created with
C40_Witness ==
    /\ service.opts.skipHydration
    /\ service.rehydrates = 1 /\ service.done.by = "hydrate"
    /\ service.mutations >= 1
    /\ service.done.found.kind = "json"
    /\ service.done.found.state["temp"] = "u"
    /\ service.state["temp"] = "u"

====
